---- MODULE Spec2Model ----
(***************************************************************************)
(* HDCP 1.x authentication and link-integrity engine of                    *)
(* drivers/gpu/drm/i915/intel_hdcp.c: the per-connector session, its three *)
(* work items (enable, periodic check, property sync), the caller's        *)
(* atomic-commit hooks, the SRM revocation store and the handshake.        *)
(***************************************************************************)
EXTENDS Integers, Sequences, FiniteSets, TLC

(***************************************************************************)
(* Bounds of the model (not program constants).                            *)
(***************************************************************************)
\* Largest downstream device count a modelled repeater reports.
MaxDevices == 2
\* Number of SRM blobs the caller can name in an atomic commit.
MaxBlobs == 2

(***************************************************************************)
(* Program constants.                                                      *)
(***************************************************************************)
KEY_LOAD_TRIES == 5
DRM_HDCP_KSV_LEN == 5
DRM_HDCP_V_PRIME_NUM_PARTS == 5
SrmHeaderSize == 5
DRM_HDCP_1_4_SRM_ID == 8
DRM_HDCP_1_4_VRL_LENGTH_SIZE == 3
DRM_HDCP_1_4_DCP_SIG_SIZE == 40
AuthTries == 3
BksvTries == 2
RiTries == 3

\* DRM_MODE_CONTENT_PROTECTION_{UNDESIRED,DESIRED,ENABLED}
CP_UNDESIRED == "Undesired"
CP_DESIRED == "Desired"
CP_ENABLED == "Enabled"
CpValues == {CP_UNDESIRED, CP_DESIRED, CP_ENABLED}

\* errno values returned by the driver (0 is success).
OK == "0"
EINVAL == "EINVAL"
ENXIO == "ENXIO"
ENODEV == "ENODEV"
EPERM == "EPERM"
ENOMEM == "ENOMEM"
ETIMEDOUT == "ETIMEDOUT"
\* the error a receiver shim call returns when its transfer fails
EIO == "EIO"

(***************************************************************************)
(* Bytes and KSVs.                                                         *)
(***************************************************************************)
RECURSIVE hweight8(_)
hweight8(b) == IF b = 0 THEN 0 ELSE (b % 2) + hweight8(b \div 2)

\* intel_hdcp_is_ksv_valid: 20 ones over the 5 bytes.
KsvOnes(ksv) ==
  hweight8(ksv[1]) + hweight8(ksv[2]) + hweight8(ksv[3])
    + hweight8(ksv[4]) + hweight8(ksv[5])

\* intel_hdcp_is_ksv_valid accepting 20 set bits or more (C21).
intel_hdcp_is_ksv_valid_AtLeast20(ksv) == KsvOnes(ksv) >= 20

intel_hdcp_is_ksv_valid(ksv) == KsvOnes(ksv) = 20

KsvA == <<255, 255, 15, 0, 0>>
KsvB == <<0, 15, 255, 255, 0>>
KsvBad == <<255, 255, 255, 0, 0>>
KsvZero == <<0, 0, 0, 0, 0>>
\* KSVs a receiver or a repeater FIFO can present
Ksvs == {KsvA, KsvB, KsvBad}

(***************************************************************************)
(* The revocation store: connector->revocated_ksv_list (a heap buffer) and  *)
(* connector->revocated_ksv_cnt.  st is the state of the pointer: "null",   *)
(* "live" (points to an allocated buffer holding data) or "freed" (points   *)
(* to a buffer that was kfree'd).                                           *)
(***************************************************************************)
NullList == [st |-> "null", data |-> <<>>]
FreedList == [st |-> "freed", data |-> <<>>]
LiveList(d) == [st |-> "live", data |-> d]

\* Some candidate equals one of the first n entries of data.
MatchIn(data, n, ksvs) ==
  \E c \in 1..Len(ksvs) : \E i \in 1..n : ksvs[c] = data[i]

\* The query reads a freed buffer or past the end of the buffer.
RevocatedUndefined(list, cnt) ==
  /\ cnt # 0
  /\ list.st # "null"
  /\ (list.st = "freed" \/ cnt > Len(list.data))

\* intel_hdcp_ksvs_revocated; ub is what a read of freed or out-of-bounds
\* memory makes of the comparison.
intel_hdcp_ksvs_revocated(list, cnt, ksvs, ub) ==
  IF cnt = 0 \/ list.st = "null" THEN FALSE
  ELSE IF list.st = "freed" THEN ub
  ELSE IF cnt > Len(list.data)
       THEN MatchIn(list.data, Len(list.data), ksvs) \/ ub
  ELSE MatchIn(list.data, cnt, ksvs)

(***************************************************************************)
(* SRM blobs: a blob is the sequence of its bytes (blob->data), its length  *)
(* is blob->length.  A read past the end of the blob yields oob.            *)
(***************************************************************************)
Byte(blob, i, oob) == IF i \in 1..Len(blob) THEN blob[i] ELSE oob

\* The 5 bytes at 1-based index off.
KsvAt(blob, off, oob) ==
  <<Byte(blob, off, oob), Byte(blob, off + 1, oob), Byte(blob, off + 2, oob),
    Byte(blob, off + 3, oob), Byte(blob, off + 4, oob)>>

\* intel_hdcp_get_revocated_ksv_count: the do/while over the VRLs, buf at
\* index off, parsed_bytes and ksv_count so far.
RECURSIVE intel_hdcp_get_revocated_ksv_count(_, _, _, _, _, _)
intel_hdcp_get_revocated_ksv_count(blob, off, parsed, count, vrls_length, oob) ==
  LET vrl_ksv_cnt == Byte(blob, off, oob)
      vrl_sz == (vrl_ksv_cnt * DRM_HDCP_KSV_LEN) + 1
  IN  IF parsed + vrl_sz < vrls_length
      THEN intel_hdcp_get_revocated_ksv_count(blob, off + vrl_sz,
             parsed + vrl_sz, count + vrl_ksv_cnt, vrls_length, oob)
      ELSE count + vrl_ksv_cnt

\* intel_hdcp_get_revocated_ksvs: the second pass; yields the KSVs copied,
\* in order (ksv_count is their number).
RECURSIVE intel_hdcp_get_revocated_ksvs(_, _, _, _, _, _)
intel_hdcp_get_revocated_ksvs(blob, off, parsed, list, vrls_length, oob) ==
  LET vrl_ksv_cnt == Byte(blob, off, oob)
      vrl_ksv_sz == vrl_ksv_cnt * DRM_HDCP_KSV_LEN
      copied == [k \in 1..vrl_ksv_cnt |->
                   KsvAt(blob, off + 1 + (k - 1) * DRM_HDCP_KSV_LEN, oob)]
  IN  IF parsed + vrl_ksv_sz + 1 < vrls_length
      THEN intel_hdcp_get_revocated_ksvs(blob, off + 1 + vrl_ksv_sz,
             parsed + vrl_ksv_sz + 1, list \o copied, vrls_length, oob)
      ELSE list \o copied

\* intel_hdcp_parse_srm up to the first pass (lines 960-1009): ret is the
\* error, or OK with the payload length, the payload's index and the count.
\* SrmPrepare without the check of srm_id, lines 977-980 (C19).
SrmPrepare_NoIdCheck(blob, oob) ==
  LET fail == [ret |-> EINVAL, vrl_length |-> 0, buf |-> 0, ksv_count |-> 0]
      vrl_length == Byte(blob, SrmHeaderSize + 1, oob) * 65536
                      + Byte(blob, SrmHeaderSize + 2, oob) * 256
                      + Byte(blob, SrmHeaderSize + 3, oob)
      overhead == DRM_HDCP_1_4_VRL_LENGTH_SIZE + DRM_HDCP_1_4_DCP_SIG_SIZE
      buf == SrmHeaderSize + DRM_HDCP_1_4_VRL_LENGTH_SIZE + 1
  IN  IF Len(blob) < SrmHeaderSize + overhead THEN fail
      ELSE IF Len(blob) < SrmHeaderSize + vrl_length \/ vrl_length < overhead
           THEN fail
      ELSE IF vrl_length - overhead = 0 THEN fail
      ELSE [ret |-> OK, vrl_length |-> vrl_length - overhead, buf |-> buf,
            ksv_count |-> intel_hdcp_get_revocated_ksv_count(blob, buf, 0, 0,
                            vrl_length - overhead, oob)]
SrmPrepare(blob, oob) ==
  LET fail == [ret |-> EINVAL, vrl_length |-> 0, buf |-> 0, ksv_count |-> 0]
      srm_id == Byte(blob, 1, oob) \div 16
      vrl_length == Byte(blob, SrmHeaderSize + 1, oob) * 65536
                      + Byte(blob, SrmHeaderSize + 2, oob) * 256
                      + Byte(blob, SrmHeaderSize + 3, oob)
      overhead == DRM_HDCP_1_4_VRL_LENGTH_SIZE + DRM_HDCP_1_4_DCP_SIG_SIZE
      buf == SrmHeaderSize + DRM_HDCP_1_4_VRL_LENGTH_SIZE + 1
  IN  IF Len(blob) < SrmHeaderSize + overhead THEN fail
      ELSE IF srm_id # DRM_HDCP_1_4_SRM_ID THEN fail
      ELSE IF Len(blob) < SrmHeaderSize + vrl_length \/ vrl_length < overhead
           THEN fail
      ELSE IF vrl_length - overhead = 0 THEN fail
      ELSE [ret |-> OK, vrl_length |-> vrl_length - overhead, buf |-> buf,
            ksv_count |-> intel_hdcp_get_revocated_ksv_count(blob, buf, 0, 0,
                            vrl_length - overhead, oob)]

(***************************************************************************)
(* The blobs the caller can name (drm_property_lookup_blob).                *)
(***************************************************************************)
RECURSIVE Flatten(_)
Flatten(ss) == IF ss = <<>> THEN <<>> ELSE Head(ss) \o Flatten(Tail(ss))

\* One VRL segment: the device count, then the KSVs.
VrlBytes(ksvs) == <<Len(ksvs)>> \o Flatten(ksvs)

\* An SRM with the given first byte, 24-bit length field and payload bytes;
\* every byte of the signature is 170.
MkSrmRaw(first, vrl_length, payload) ==
  <<first, 0, 0, 1, 0>>
    \o <<vrl_length \div 65536, (vrl_length \div 256) % 256, vrl_length % 256>>
    \o payload
    \o [k \in 1..DRM_HDCP_1_4_DCP_SIG_SIZE |-> 170]

\* An SRM with the given first byte and 24-bit length field over the VRLs.
MkSrm(first, vrl_length, vrls) ==
  MkSrmRaw(first, vrl_length, Flatten([k \in 1..Len(vrls) |-> VrlBytes(vrls[k])]))

WellFormedSrm(vrls) ==
  MkSrm(128,
        DRM_HDCP_1_4_VRL_LENGTH_SIZE + DRM_HDCP_1_4_DCP_SIG_SIZE
          + Len(Flatten([k \in 1..Len(vrls) |-> VrlBytes(vrls[k])])),
        vrls)

\* Blobs 1 and 2 are well formed; 3 is well formed with one VRL of no KSV;
\* 4 is cut short of header, length field and signature; 5 has a length
\* field beyond the blob; 6 has a length field below length field plus
\* signature; 7 has no payload; 8 has one VRL whose device count of 2
\* reaches 5 bytes beyond the declared payload of 6 bytes, into the
\* signature; any other blob carries a wrong srm_id.
SrmBlob(id) ==
  CASE id = 1 -> WellFormedSrm(<<<<KsvA>>>>)
    [] id = 2 -> WellFormedSrm(<<<<KsvB>>, <<KsvA>>>>)
    [] id = 3 -> WellFormedSrm(<<<<>>>>)
    [] id = 4 -> SubSeq(WellFormedSrm(<<<<KsvA>>>>), 1, 47)
    [] id = 5 -> MkSrm(128, 60, <<<<KsvA>>>>)
    [] id = 6 -> MkSrm(128, 42, <<<<KsvA>>>>)
    [] id = 7 -> MkSrmRaw(128, 43, <<>>)
    [] id = 8 -> MkSrmRaw(128, 49, <<2>> \o KsvB)
    [] OTHER  -> MkSrm(0, 49, <<<<KsvA>>>>)

BlobIds == 1..MaxBlobs

\* Every kind of blob above.
SrmCases == 1..9

(***************************************************************************)
(* Topology info (struct cp_downstream_info) and the transmitter's status.  *)
(* ksv_list is the fixed array of the structure, as far as the model's      *)
(* repeaters can fill it.                                                   *)
(***************************************************************************)
ZeroInfo ==
  [is_repeater |-> FALSE, device_count |-> 0, depth |-> 0, bksv |-> KsvZero,
   ksv_list |-> [k \in 1..MaxDevices |-> KsvZero]]

\* enc: HDCP_STATUS_ENC of PORT_HDCP_STATUS; sig: HDCP signalling is on.
HwOff == [enc |-> FALSE, sig |-> FALSE]

\* DRM_HDCP_MAX_DEVICE_EXCEEDED, DRM_HDCP_NUM_DOWNSTREAM,
\* DRM_HDCP_MAX_CASCADE_EXCEEDED and DRM_HDCP_DEPTH of the BSTATUS bytes.
MaxDeviceExceeded(b0) == (b0 \div 128) % 2 = 1
NumDownstream(b0) == b0 % 128
MaxCascadeExceeded(b1) == (b1 \div 8) % 2 = 1
Depth(b1) == b1 % 8

\* What one call returns: its error, the operations performed in order, the
\* topology info and the transmitter status it leaves.
Ret(ret, ops, info, hw) == [ret |-> ret, ops |-> ops, info |-> info, hw |-> hw]

\* memcpy of n KSVs over the head of the ksv_list array.
CopyKsvs(list, fifo, n) ==
  [k \in 1..MaxDevices |-> IF k <= n THEN fifo[k] ELSE list[k]]

(***************************************************************************)
(* The SHA-1 text of Part 2 (lines 296-474).  A 32-bit value (sha_text, a   *)
(* word written to HDCP_SHA_TEXT) is the tuple of its 4 bytes, the most     *)
(* significant first: a shift by (4 - p) * 8 bits puts a byte at place p.   *)
(* The framer's state is sha_text, sha_leftovers, sha_idx, the text width   *)
(* last selected in HDCP_REP_CTL, and out, the register writes made so far: *)
(* for a write of HDCP_REP_CTL the width it selects, for a write of         *)
(* HDCP_SHA_TEXT the word and the width in force, for both the value of     *)
(* sha_idx when the code goes on after the write.                           *)
(***************************************************************************)
ShaWordLen == 4

RECURSIVE Or8(_, _)
Or8(a, b) ==
  IF a = 0 THEN b
  ELSE IF b = 0 THEN a
  ELSE (IF a % 2 = 1 \/ b % 2 = 1 THEN 1 ELSE 0) + 2 * Or8(a \div 2, b \div 2)

Word0 == <<0, 0, 0, 0>>

\* The bytes of a value below 2^31.
ToWord(x) ==
  <<(x \div 16777216) % 256, (x \div 65536) % 256, (x \div 256) % 256, x % 256>>

\* for (j = 0; j < cnt; j++) sha_text |= ksv[off + j] << ((4 - j - 1) * 8)
OrKsvBytes(text, ksv, off, cnt) ==
  [p \in 1..ShaWordLen |->
     IF p <= cnt THEN Or8(text[p], ksv[off + p]) ELSE text[p]]

\* sha_text |= b << ((4 - p) * 8)
OrByte(text, p, b) == [text EXCEPT ![p] = Or8(@, b)]

ShaInit ==
  [sha_text |-> Word0, sha_leftovers |-> 0, sha_idx |-> 0, width |-> 0,
   ret |-> OK, out |-> <<>>]

\* I915_WRITE(HDCP_REP_CTL, rep_ctl | HDCP_SHA1_TEXT_w)
WriteRepCtl(s, w) ==
  [s EXCEPT !.width = w,
            !.out = Append(@, [reg |-> "HDCP_REP_CTL", width |-> w,
                               text |-> Word0, idx |-> s.sha_idx])]

\* intel_write_sha_text(dev_priv, text), then sha_idx += sizeof(sha_text)
WriteShaText(s, text) ==
  [s EXCEPT !.sha_idx = @ + ShaWordLen,
            !.out = Append(@, [reg |-> "HDCP_SHA_TEXT", width |-> s.width,
                               text |-> text,
                               idx |-> s.sha_idx + ShaWordLen])]

\* One pass of the loop of lines 311-349, over the KSV ksv.
ShaKsv(s, ksv) ==
  LET sha_empty == ShaWordLen - s.sha_leftovers
      s1 == WriteShaText(s, OrKsvBytes(s.sha_text, ksv, 0, sha_empty))
      s2 == IF s1.sha_idx % 64 = 0 THEN WriteRepCtl(s1, 32) ELSE s1
      left == DRM_HDCP_KSV_LEN - sha_empty
      s3 == [s2 EXCEPT !.sha_leftovers = left,
                       !.sha_text = OrKsvBytes(Word0, ksv, sha_empty, left)]
  IN  IF ShaWordLen > left THEN s3
      ELSE [WriteShaText(s3, s3.sha_text) EXCEPT !.sha_leftovers = 0,
                                                 !.sha_text = Word0]

RECURSIVE ShaKsvLoop(_, _, _)
ShaKsvLoop(s, fifo, i) ==
  IF s.ret # OK \/ i > Len(fifo) THEN s
  ELSE ShaKsvLoop(ShaKsv(s, fifo[i]), fifo, i + 1)

\* Lines 357-455: BSTATUS and M0 after the KSVs.
ShaTail(s, bstatus) ==
  CASE s.sha_leftovers = 0 ->
         LET s1 == WriteShaText(WriteRepCtl(s, 16),
                                <<0, 0, bstatus[1], bstatus[2]>>)
             s2 == WriteShaText(WriteRepCtl(s1, 0), Word0)
         IN  WriteShaText(WriteRepCtl(s2, 16), Word0)
    [] s.sha_leftovers = 1 ->
         LET t == OrByte(OrByte(s.sha_text, 2, bstatus[1]), 3, bstatus[2])
             s1 == WriteShaText(WriteRepCtl(s, 24), <<0, t[1], t[2], t[3]>>)
             s2 == WriteShaText(WriteRepCtl(s1, 0), Word0)
         IN  WriteShaText(WriteRepCtl(s2, 8), Word0)
    [] s.sha_leftovers = 2 ->
         LET t == OrByte(OrByte(s.sha_text, 1, bstatus[1]), 2, bstatus[2])
             s1 == WriteShaText(WriteRepCtl(s, 32), t)
             s2 == WriteShaText(WriteRepCtl(s1, 0), Word0)
         IN  WriteShaText(s2, Word0)
    [] s.sha_leftovers = 3 ->
         LET t == OrByte(s.sha_text, 1, bstatus[1])
             s1 == WriteShaText(WriteRepCtl(s, 32), t)
             s2 == WriteShaText(WriteRepCtl(s1, 8), <<0, 0, 0, bstatus[2]>>)
             s3 == WriteShaText(WriteRepCtl(s2, 0), Word0)
         IN  WriteShaText(WriteRepCtl(s3, 24), Word0)
    [] OTHER -> [s EXCEPT !.ret = EINVAL]

\* ShaPad filling the block to its end (C32).
RECURSIVE ShaPad_ToBlockEnd(_)
ShaPad_ToBlockEnd(s) ==
  IF s.sha_idx % 64 # 0 THEN ShaPad_ToBlockEnd(WriteShaText(s, Word0))
  ELSE s

\* Lines 459-464: zeros up to the last word of the 64-byte block.
RECURSIVE ShaPad(_)
ShaPad(s) ==
  IF s.sha_idx % 64 < 64 - ShaWordLen THEN ShaPad(WriteShaText(s, Word0))
  ELSE s

\* The framer after the KSV loop over fifo.
ShaAfterKsvs(fifo) == ShaKsvLoop(WriteRepCtl(ShaInit, 32), fifo, 1)

\* The whole text for the KSVs of fifo and BSTATUS: the loop, the tail, the
\* padding and the length in bits (lines 471-474).
intel_hdcp_sha_text(fifo, bstatus) ==
  LET s1 == ShaTail(ShaAfterKsvs(fifo), bstatus)
      s2 == ShaPad(WriteRepCtl(s1, 32))
  IN  IF s1.ret # OK THEN s1
      ELSE WriteShaText(s2, ToWord((Len(fifo) * DRM_HDCP_KSV_LEN + 10) * 8))

\* The hash-engine part of intel_hdcp_auth_downstream (lines 288-489).
AuthDownstreamHash(ops, info, hw, env) ==
  IF env.vprime_fail # 0
  THEN Ret(EIO,
           ops \o [k \in 1..(2 * env.vprime_fail - 1) |->
                     IF k % 2 = 1 THEN "read_v_prime_part" ELSE "write_v_prime"],
           info, hw)
  ELSE
  LET o1 == ops \o [k \in 1..(2 * DRM_HDCP_V_PRIME_NUM_PARTS) |->
                      IF k % 2 = 1 THEN "read_v_prime_part" ELSE "write_v_prime"]
      o2 == o1 \o <<"write_rep_ctl", "write_sha_text">>
  IN  IF ~env.sha_ok THEN Ret(ETIMEDOUT, o2, info, hw)
      ELSE IF ~env.complete_ok
           THEN Ret(ETIMEDOUT, o2 \o <<"sha_complete">>, info, hw)
      ELSE IF ~env.v_match
           THEN Ret(ENXIO, o2 \o <<"sha_complete">>, info, hw)
      ELSE Ret(OK, o2 \o <<"sha_complete">>, info, hw)

\* intel_hdcp_auth_downstream from the device count on (lines 269-489); list
\* and cnt are the revocation store as the query reads it.
\* AuthDownstreamTopology without the query of lines 280-283 (C27).
AuthDownstreamTopology_NoRevocation(ops, info, hw, list, cnt, env) ==
  LET n == NumDownstream(env.bstatus[1])
      info1 == [info EXCEPT !.device_count = n,
                            !.depth = Depth(env.bstatus[2])]
      o3 == ops \o <<"kzalloc_ksv_fifo", "read_ksv_fifo">>
      fifo == SubSeq(env.fifo, 1, n)
      info2 == [info1 EXCEPT !.ksv_list = CopyKsvs(info.ksv_list, fifo, n)]
  IN  IF ~env.kzalloc_ok THEN Ret(ENOMEM, ops, info1, hw)
      ELSE IF ~env.fifo_ok THEN Ret(EIO, o3, info1, hw)
      ELSE AuthDownstreamHash(o3 \o <<"ksvs_revocated">>, info2, hw, env)

\* AuthDownstreamTopology giving up on a FIFO KSV that
\* intel_hdcp_is_ksv_valid rejects (C28).
AuthDownstreamTopology_ValidFifo(ops, info, hw, list, cnt, env) ==
  LET n == NumDownstream(env.bstatus[1])
      info1 == [info EXCEPT !.device_count = n,
                            !.depth = Depth(env.bstatus[2])]
      o3 == ops \o <<"kzalloc_ksv_fifo", "read_ksv_fifo">>
      o4 == o3 \o <<"ksvs_revocated">>
      fifo == SubSeq(env.fifo, 1, n)
      info2 == [info1 EXCEPT !.ksv_list = CopyKsvs(info.ksv_list, fifo, n)]
  IN  IF ~env.kzalloc_ok THEN Ret(ENOMEM, ops, info1, hw)
      ELSE IF ~env.fifo_ok THEN Ret(EIO, o3, info1, hw)
      ELSE IF \E k \in 1..n : ~intel_hdcp_is_ksv_valid(fifo[k])
           THEN Ret(ENODEV, o3, info1, hw)
      ELSE IF intel_hdcp_ksvs_revocated(list, cnt, fifo, env.ub)
           THEN Ret(EPERM, o4, info1, hw)
      ELSE AuthDownstreamHash(o4, info2, hw, env)

AuthDownstreamTopology(ops, info, hw, list, cnt, env) ==
  LET n == NumDownstream(env.bstatus[1])
      info1 == [info EXCEPT !.device_count = n,
                            !.depth = Depth(env.bstatus[2])]
      o3 == ops \o <<"kzalloc_ksv_fifo", "read_ksv_fifo">>
      o4 == o3 \o <<"ksvs_revocated">>
      fifo == SubSeq(env.fifo, 1, n)
      info2 == [info1 EXCEPT !.ksv_list = CopyKsvs(info.ksv_list, fifo, n)]
  IN  IF ~env.kzalloc_ok THEN Ret(ENOMEM, ops, info1, hw)
      ELSE IF ~env.fifo_ok THEN Ret(EIO, o3, info1, hw)
      ELSE IF intel_hdcp_ksvs_revocated(list, cnt, fifo, env.ub)
           THEN Ret(EPERM, o4, info1, hw)
      ELSE AuthDownstreamHash(o4, info2, hw, env)

\* intel_hdcp_auth_downstream without the check of lines 265-267 (C8).
intel_hdcp_auth_downstream_NoZeroCheck(ops, info, hw, list, cnt, env) ==
  LET o1 == ops \o <<"poll_ksv_fifo">>
      o2 == o1 \o <<"read_bstatus">>
  IN  IF env.ksv_ready = "err" THEN Ret(EIO, o1, info, hw)
      ELSE IF env.ksv_ready = "timeout" THEN Ret(ETIMEDOUT, o1, info, hw)
      ELSE IF ~env.bstatus_ok THEN Ret(EIO, o2, info, hw)
      ELSE IF MaxDeviceExceeded(env.bstatus[1])
                \/ MaxCascadeExceeded(env.bstatus[2])
           THEN Ret(EPERM, o2, info, hw)
      ELSE AuthDownstreamTopology(o2, info, hw, list, cnt, env)

\* intel_hdcp_auth_downstream (Part 2 of the authentication).
intel_hdcp_auth_downstream(ops, info, hw, list, cnt, env) ==
  LET o1 == ops \o <<"poll_ksv_fifo">>
      o2 == o1 \o <<"read_bstatus">>
  IN  IF env.ksv_ready = "err" THEN Ret(EIO, o1, info, hw)
      ELSE IF env.ksv_ready = "timeout" THEN Ret(ETIMEDOUT, o1, info, hw)
      ELSE IF ~env.bstatus_ok THEN Ret(EIO, o2, info, hw)
      ELSE IF MaxDeviceExceeded(env.bstatus[1])
                \/ MaxCascadeExceeded(env.bstatus[2])
           THEN Ret(EPERM, o2, info, hw)
      ELSE IF NumDownstream(env.bstatus[1]) = 0 THEN Ret(EINVAL, o2, info, hw)
      ELSE AuthDownstreamTopology(o2, info, hw, list, cnt, env)

(***************************************************************************)
(* Part 1 of the authentication, intel_hdcp_auth, in the order of the code. *)
(***************************************************************************)
\* Lines 641-657: the encryption confirmation, then Part 2 behind a repeater.
\* AuthConfirm calling Part 2 whether or not a repeater is present (C7).
AuthConfirm_AlwaysDownstream(ops, info, hw, list, cnt, env) ==
  LET o1 == ops \o <<"wait_enc">>
      hw1 == [hw EXCEPT !.enc = env.enc_final]
  IN  IF ~env.enc_final THEN Ret(ETIMEDOUT, o1, info, hw1)
      ELSE intel_hdcp_auth_downstream(o1, info, hw1, list, cnt, env)

AuthConfirm(ops, info, hw, list, cnt, env) ==
  LET o1 == ops \o <<"wait_enc">>
      hw1 == [hw EXCEPT !.enc = env.enc_final]
  IN  IF ~env.enc_final THEN Ret(ETIMEDOUT, o1, info, hw1)
      ELSE IF env.rep = "yes"
           THEN intel_hdcp_auth_downstream(o1, info, hw1, list, cnt, env)
      ELSE Ret(OK, o1, info, hw1)

\* Lines 616-639: the Ri' loop, try i of RiTries.  A try matches when the
\* status shows RI_MATCH or ENC within the poll.
RECURSIVE AuthRi(_, _, _, _, _, _, _)
AuthRi(i, ops, info, hw, list, cnt, env) ==
  LET hw1 == [hw EXCEPT !.enc = env.enc_final]
      o1 == ops \o <<"read_ri_prime">>
      o2 == o1 \o <<"write_rprime", "wait_ri_match">>
  IN  IF i > RiTries THEN Ret(ETIMEDOUT, ops, info, hw1)
      ELSE IF env.ri[i] = "err" THEN Ret(EIO, o1, info, hw1)
      ELSE IF env.ri[i] \in {"match", "enc"}
           THEN AuthConfirm(o2, info, hw, list, cnt, env)
      ELSE AuthRi(i + 1, o2, info, hw, list, cnt, env)

\* Lines 583-614: repeater detection, signalling, authentication on.
AuthStart(ops, info, hw, list, cnt, env) ==
  LET o1 == ops \o <<"repeater_present">>
      info1 == IF env.rep = "yes" THEN [info EXCEPT !.is_repeater = TRUE]
               ELSE info
      o2 == IF env.rep = "yes" THEN o1 \o <<"write_rep_ctl">> ELSE o1
      o3 == o2 \o <<"toggle_signalling_on">>
      hw1 == [hw EXCEPT !.sig = TRUE]
      o4 == o3 \o <<"write_conf_auth_and_enc", "wait_r0">>
      hw2 == [hw1 EXCEPT !.enc = env.enc_final]
  IN  IF env.rep = "err" THEN Ret(EIO, o1, info, hw)
      ELSE IF ~env.sig_ok THEN Ret(EIO, o3, info1, hw)
      ELSE IF ~(env.r0_ready \/ env.r0_enc) THEN Ret(ETIMEDOUT, o4, info1, hw2)
      ELSE AuthRi(1, o4 \o <<"wait_r0_prime">>, info1, hw1, list, cnt, env)

\* Lines 572-581: the revocation check of Bksv and its use.
\* AuthBksv without the query of lines 572-575 (C25).
AuthBksv_NoRevocation(bksv, ops, info, hw, list, cnt, env) ==
  AuthStart(ops \o <<"ksvs_revocated", "write_bksv">>,
            [info EXCEPT !.bksv = bksv], hw, list, cnt, env)

AuthBksv(bksv, ops, info, hw, list, cnt, env) ==
  IF intel_hdcp_ksvs_revocated(list, cnt, <<bksv>>, env.ub)
  THEN Ret(EPERM, ops \o <<"ksvs_revocated">>, info, hw)
  ELSE AuthStart(ops \o <<"ksvs_revocated", "write_bksv">>,
                 [info EXCEPT !.bksv = bksv], hw, list, cnt, env)

\* Lines 557-570: read i of BksvTries of the receiver's Bksv.
RECURSIVE AuthReadBksv(_, _, _, _, _, _, _)
AuthReadBksv(i, ops, info, hw, list, cnt, env) ==
  LET o1 == ops \o <<"read_bksv">>
  IN  IF i > BksvTries THEN Ret(ENODEV, ops, info, hw)
      ELSE IF env.bksv_err = i THEN Ret(EIO, o1, info, hw)
      ELSE IF intel_hdcp_is_ksv_valid(env.bksv[i])
           THEN AuthBksv(env.bksv[i], o1, info, hw, list, cnt, env)
      ELSE AuthReadBksv(i + 1, o1, info, hw, list, cnt, env)

\* intel_hdcp_auth (Part 1): info and hw are the topology info and the
\* transmitter status before the attempt, list and cnt the revocation store
\* as the attempt reads it, env the receiver's and the transmitter's answers.
\* intel_hdcp_auth going on whatever hdcp_capable reports (C26).
intel_hdcp_auth_AnyCapability(info, hw, list, cnt, env) ==
  LET o1 == IF env.cap = "none" THEN <<>> ELSE <<"hdcp_capable">>
      o2 == o1 \o <<"write_aninit", "write_aninit", "capture_an", "wait_an">>
      o3 == o2 \o <<"read_an", "write_an_aksv">>
  IN  IF env.cap = "err" THEN Ret(EIO, o1, info, hw)
      ELSE IF ~env.an_ready THEN Ret(ETIMEDOUT, o2, info, hw)
      ELSE IF ~env.an_ok THEN Ret(EIO, o3, info, hw)
      ELSE AuthReadBksv(1, o3, info, hw, list, cnt, env)

intel_hdcp_auth(info, hw, list, cnt, env) ==
  LET o1 == IF env.cap = "none" THEN <<>> ELSE <<"hdcp_capable">>
      o2 == o1 \o <<"write_aninit", "write_aninit", "capture_an", "wait_an">>
      o3 == o2 \o <<"read_an", "write_an_aksv">>
  IN  IF env.cap = "err" THEN Ret(EIO, o1, info, hw)
      ELSE IF env.cap = "no" THEN Ret(EINVAL, o1, info, hw)
      ELSE IF ~env.an_ready THEN Ret(ETIMEDOUT, o2, info, hw)
      ELSE IF ~env.an_ok THEN Ret(EIO, o3, info, hw)
      ELSE AuthReadBksv(1, o3, info, hw, list, cnt, env)

\* _intel_hdcp_disable: d is what the teardown meets: "ok", "timeout" (the
\* status does not clear) or "sigerr" (the shim fails to stop signalling).
_intel_hdcp_disable(info, hw, d) ==
  IF d = "timeout"
  THEN Ret(ETIMEDOUT, <<"write_conf_0", "wait_status_0">>, info, hw)
  ELSE IF d = "sigerr"
  THEN Ret(EIO, <<"write_conf_0", "wait_status_0", "toggle_signalling_off">>,
           info, [hw EXCEPT !.enc = FALSE])
  ELSE Ret(OK, <<"write_conf_0", "wait_status_0", "toggle_signalling_off">>,
           ZeroInfo, HwOff)

(***************************************************************************)
(* What the receiver, the repeater and the transmitter answer during one    *)
(* handshake attempt.  An answer that the code never asks for, because it   *)
(* returned earlier, is left at its value in the base.                      *)
(***************************************************************************)
BaseEnv(cap, bksv, rep, bstatus, fifo) ==
  [cap |-> cap, an_ready |-> TRUE, an_ok |-> TRUE, bksv |-> <<bksv, bksv>>,
   bksv_err |-> 0, rep |-> rep, sig_ok |-> TRUE, r0_ready |-> TRUE,
   r0_enc |-> TRUE, ri |-> <<"match", "match", "match">>, enc_final |-> TRUE,
   ub |-> FALSE, ksv_ready |-> "ready", bstatus_ok |-> TRUE,
   bstatus |-> bstatus, kzalloc_ok |-> TRUE, fifo_ok |-> TRUE, fifo |-> fifo,
   vprime_fail |-> 0, sha_ok |-> TRUE, complete_ok |-> TRUE, v_match |-> TRUE]

\* The answers of a receiver that was never asked.
NoEnv ==
  BaseEnv("none", <<0, 0, 0, 0, 0>>, "no", <<0, 0>>,
          [k \in 1..MaxDevices |-> <<0, 0, 0, 0, 0>>])

\* env with the answers named in patch replaced.
Patch(env, patch) ==
  [f \in DOMAIN env |-> IF f \in DOMAIN patch THEN patch[f] ELSE env[f]]

Fifos == [1..MaxDevices -> Ksvs]

\* Receivers without a repeater and behind a repeater of 1..MaxDevices
\* devices.
BaseEnvs ==
  {BaseEnv("yes", bksv, "no", <<0, 0>>, [k \in 1..MaxDevices |-> KsvZero]) :
     bksv \in {KsvA, KsvB}}
  \cup
  {BaseEnv("yes", bksv, "yes", <<n, 1>>, fifo) :
     bksv \in {KsvA, KsvB}, n \in 1..MaxDevices, fifo \in Fifos}

\* The bases the attempts of one run deviate from: one Bksv, one FIFO
\* content per repeater.
RunBases ==
  {e \in BaseEnvs : /\ e.bksv[1] = KsvA
                    /\ \A k \in 1..MaxDevices : e.fifo[k] \in {KsvZero, KsvB}}

\* The deviations of Part 1 and of the repeater's Part 2 from the base.
Phase1Patches ==
  << [an_ready |-> TRUE], [cap |-> "none"],
     [cap |-> "no"], [cap |-> "err"], [an_ready |-> FALSE], [an_ok |-> FALSE],
     [bksv_err |-> 1], [bksv_err |-> 2], [bksv |-> <<KsvBad, KsvA>>],
     [bksv |-> <<KsvBad, KsvBad>>], [bksv |-> <<KsvBad, KsvA>>, bksv_err |-> 2],
     [rep |-> "err"], [sig_ok |-> FALSE],
     [r0_ready |-> FALSE], [r0_enc |-> FALSE],
     [r0_ready |-> FALSE, r0_enc |-> FALSE],
     [r0_ready |-> FALSE, r0_enc |-> FALSE, enc_final |-> FALSE],
     [ri |-> <<"none", "match", "match">>], [ri |-> <<"none", "none", "match">>],
     [ri |-> <<"none", "none", "none">>], [ri |-> <<"enc", "none", "none">>],
     [ri |-> <<"err", "match", "match">>], [ri |-> <<"none", "none", "err">>],
     [ri |-> <<"none", "none", "none">>, enc_final |-> FALSE],
     [enc_final |-> FALSE], [ub |-> TRUE] >>

Phase2Patches ==
  << [ksv_ready |-> "ready"],
     [ksv_ready |-> "timeout"], [ksv_ready |-> "err"], [bstatus_ok |-> FALSE],
     [bstatus |-> <<0, 1>>], [bstatus |-> <<129, 1>>], [bstatus |-> <<1, 9>>],
     [kzalloc_ok |-> FALSE], [fifo_ok |-> FALSE], [vprime_fail |-> 1],
     [vprime_fail |-> 3], [sha_ok |-> FALSE], [complete_ok |-> FALSE],
     [v_match |-> FALSE], [ub |-> TRUE] >>

AuthEnvs ==
  {Patch(b, Phase1Patches[i]) : b \in RunBases, i \in 1..Len(Phase1Patches)}
  \cup
  {Patch(b, Phase2Patches[i]) :
     b \in {e \in RunBases : e.rep = "yes"}, i \in 1..Len(Phase2Patches)}

\* The answers explored while the tasks interleave: the outcomes of an
\* attempt that the session's state can tell apart.
ConcPatches ==
  << [an_ready |-> TRUE], [an_ready |-> FALSE], [enc_final |-> FALSE],
     [v_match |-> FALSE] >>

ConcEnvs ==
  {Patch(b, ConcPatches[i]) :
     b \in {e \in BaseEnvs : /\ e.cap = "yes"
                             /\ e.bksv[1] = KsvA
                             /\ e.bstatus[1] <= 1
                             /\ \A k \in 1..MaxDevices : e.fifo[k] = KsvB},
     i \in 1..Len(ConcPatches)}

\* What a teardown can meet.
DisableEnvs == {"ok", "timeout", "sigerr"}

\* The device's answers to one key load of _intel_hdcp_enable: k.loadable is
\* the power well's state (hdcp_key_loadable), k.rets[i] what the i-th call
\* of intel_hdcp_load_keys would return.  The errors of a load are -ENXIO
\* (lines 92-93, 124-125) and those of the pcode write and of the wait for
\* HDCP_KEY_STATUS (lines 108-112, 119-123).
KeyRets ==
  {<<OK, OK, OK, OK, OK>>,
   <<ENXIO, OK, ETIMEDOUT, ETIMEDOUT, ETIMEDOUT>>,
   <<ENXIO, ENXIO, ENXIO, ENXIO, ETIMEDOUT>>,
   <<ETIMEDOUT, ETIMEDOUT, ETIMEDOUT, ETIMEDOUT, ENXIO>>}

KeyEnvs == [loadable : BOOLEAN, rets : KeyRets]

KeyOp(op, ret) == [op |-> op, ret |-> ret]

\* LoadKeysLoop that goes on after a load succeeded (C33).
RECURSIVE LoadKeysLoop_NoBreak(_, _, _, _)
LoadKeysLoop_NoBreak(rets, i, ret, keys) ==
  IF i > KEY_LOAD_TRIES THEN [ret |-> ret, keys |-> keys]
  ELSE LoadKeysLoop_NoBreak(rets, i + 1, rets[i],
         IF rets[i] = OK
         THEN Append(keys, KeyOp("intel_hdcp_load_keys", rets[i]))
         ELSE keys \o <<KeyOp("intel_hdcp_load_keys", rets[i]),
                        KeyOp("intel_hdcp_clear_keys", OK)>>)

\* Lines 703-708, from the i-th pass on: ret is the last load's result, keys
\* the calls made so far.
RECURSIVE LoadKeysLoop(_, _, _, _)
LoadKeysLoop(rets, i, ret, keys) ==
  IF i > KEY_LOAD_TRIES THEN [ret |-> ret, keys |-> keys]
  ELSE IF rets[i] = OK
       THEN [ret |-> OK,
             keys |-> Append(keys, KeyOp("intel_hdcp_load_keys", OK))]
  ELSE LoadKeysLoop(rets, i + 1, rets[i],
                    keys \o <<KeyOp("intel_hdcp_load_keys", rets[i]),
                              KeyOp("intel_hdcp_clear_keys", OK)>>)

KeyCalls(keys, op) == Len(SelectSeq(keys, LAMBDA e : e.op = op))

\* Lines 698-712: hdcp_key_loadable and the KEY_LOAD_TRIES loop around
\* intel_hdcp_load_keys; what _intel_hdcp_enable returns if not 0, the calls
\* made in order and the numbers of loads and clears among them.
LoadKeys(k) ==
  LET l == IF ~k.loadable
           THEN [ret |-> ENXIO, keys |-> <<KeyOp("hdcp_key_loadable", ENXIO)>>]
           ELSE LoadKeysLoop(k.rets, 1, OK, <<KeyOp("hdcp_key_loadable", OK)>>)
  IN  [ret |-> l.ret, keys |-> l.keys,
       loads |-> KeyCalls(l.keys, "intel_hdcp_load_keys"),
       clears |-> KeyCalls(l.keys, "intel_hdcp_clear_keys")]

\* One pass of the loop of lines 715-730, the i-th, in which intel_hdcp_auth
\* returned a and the teardown meets d, and lines 732-736 after the last
\* pass: what the pass leaves, whether it set hdcp_value and queued the
\* works, whether it tore down, whether _intel_hdcp_enable returns after it.
\* enable_pass without the call of line 729 (C6).
enable_pass_NoTeardown(a, d, i) ==
  IF a.ret = OK
  THEN [info |-> a.info, hw |-> a.hw, enabled |-> TRUE, teardown |-> FALSE,
        return |-> TRUE, ret |-> OK]
  ELSE [info |-> IF i = AuthTries THEN ZeroInfo ELSE a.info, hw |-> a.hw,
        enabled |-> FALSE, teardown |-> FALSE, return |-> (i = AuthTries),
        ret |-> a.ret]

enable_pass(a, d, i) ==
  LET dis == _intel_hdcp_disable(a.info, a.hw, d)
  IN  IF a.ret = OK
      THEN [info |-> a.info, hw |-> a.hw, enabled |-> TRUE,
            teardown |-> FALSE, return |-> TRUE, ret |-> OK]
      ELSE [info |-> IF i = AuthTries THEN ZeroInfo ELSE dis.info,
            hw |-> dis.hw, enabled |-> FALSE, teardown |-> TRUE,
            return |-> (i = AuthTries), ret |-> a.ret]

(***************************************************************************)
(* The session of one connector.                                            *)
(***************************************************************************)
VARIABLES
  hdcp_value,          \* connector->hdcp_value
  content_protection,  \* connector->base.state->content_protection
  cp_srm_blob_id,      \* connector->base.state->cp_srm_blob_id
  srm_blob_id,         \* connector->srm_blob_id, the blob last applied
  revocated_ksv_list,  \* connector->revocated_ksv_list
  revocated_ksv_cnt,   \* connector->revocated_ksv_cnt
  downstream_info,     \* *connector->downstream_info
  hw,                  \* the transmitter's HDCP status
  hdcp_mutex,          \* owner of connector->hdcp_mutex, or "none"
  connection_mutex,    \* owner of mode_config.connection_mutex, or "none"
  pending,             \* per work item: queued (or its timer armed)
  canceling,           \* cancel_delayed_work_sync(hdcp_check_work) in progress
  pc,                  \* position of each work item and of the caller
  commit_crtc,         \* new_state->crtc of the commit in progress
  run,                 \* per task: the _intel_hdcp_enable run in progress
  disabled_since       \* intel_hdcp_disable returned, no intel_hdcp_enable since

vars ==
  <<hdcp_value, content_protection, cp_srm_blob_id, srm_blob_id,
    revocated_ksv_list, revocated_ksv_cnt, downstream_info, hw, hdcp_mutex,
    connection_mutex, pending, canceling, pc, commit_crtc, run,
    disabled_since>>

Works == {"enable", "check", "prop"}
Tasks == {"enable", "check"}
Procs == Works \cup {"caller"}

\* The run of _intel_hdcp_enable a task is in: attempts and teardowns made,
\* the value returned, hdcp_value when the task took the mutex, whether the
\* run queued the check and the property work, and of the last attempt:
\* what intel_hdcp_auth returned, what its revocation queries found in the
\* store ("none": it made no query), whether Part 2 ran, whether the receiver reported a repeater, whether
\* every answer of Part 1 was good; zero_all: every attempt so far met a
\* repeater reporting a device count of 0; fresh: the topology the answers
\* of a successful attempt describe.  The caller's record holds what its
\* intel_hdcp_disable did and returns (teardowns, ret), kept until it goes
\* on to cancel the check work, the store and srm_blob_id before its
\* intel_hdcp_update_srm (before) and what intel_hdcp_parse_srm returned
\* (srm_ret, "none": not called).  A traced attempt (traced) also leaves the
\* answers it got (env), the operations intel_hdcp_auth performed in order
\* (ops), the topology info it left before any teardown (info) and, when
\* Part 2 wrote its whole SHA-1 text, the framer as the KSV loop left it
\* (sha_loop), as the words of BSTATUS and M0 left it (sha_tail) and as the
\* last write left it (sha_end).  A run whose key load is recorded keeps the
\* numbers of intel_hdcp_load_keys and intel_hdcp_clear_keys calls (loads,
\* clears), one whose key load is traced the calls in order, each with what
\* it returned (keys; hdcp_key_loadable: 0 for true).
NoRun ==
  [attempts |-> 0, teardowns |-> 0, ret |-> OK, start_value |-> CP_UNDESIRED,
   last_auth |-> OK, sched |-> FALSE, seen |-> "none", p2 |-> FALSE,
   rep |-> FALSE, p1ok |-> FALSE, zero_all |-> TRUE, fresh |-> ZeroInfo,
   before |-> <<>>, srm_ret |-> "none",
   traced |-> FALSE, env |-> NoEnv, ops |-> <<>>, info |-> ZeroInfo,
   sha_loop |-> ShaInit, sha_tail |-> ShaInit, sha_end |-> ShaInit,
   loads |-> 0, clears |-> 0, keys |-> <<>>]

Init ==
  /\ hdcp_value = CP_UNDESIRED
  /\ content_protection = CP_UNDESIRED
  /\ cp_srm_blob_id = 0
  /\ srm_blob_id = 0
  /\ revocated_ksv_list = NullList
  /\ revocated_ksv_cnt = 0
  /\ downstream_info = ZeroInfo
  /\ hw = HwOff
  /\ hdcp_mutex = "none"
  /\ connection_mutex = "none"
  /\ pending = [w \in Works |-> FALSE]
  /\ canceling = FALSE
  /\ pc = [p \in Procs |-> "idle"]
  /\ commit_crtc = FALSE
  /\ run = [t \in Procs |-> NoRun]
  /\ disabled_since = FALSE

\* schedule_work: queues the work unless it is queued already.
schedule_work(p, w) == [p EXCEPT ![w] = TRUE]

\* schedule_delayed_work(&connector->hdcp_check_work): as schedule_work; a
\* cancel in progress owns the pending bit, and the call changes nothing.
schedule_check_work(p) == IF canceling THEN p ELSE [p EXCEPT !["check"] = TRUE]

(***************************************************************************)
(* What the model records of an attempt, from the answers alone.            *)
(***************************************************************************)
Range(f) == {f[x] : x \in DOMAIN f}

\* Every step of Part 1 got a good answer: the capability query, An, a valid
\* Bksv within BksvTries reads that is not revoked, repeater detection,
\* signalling, the R0 poll, an Ri' match within RiTries reads, encryption.
Phase1Good(env, list, cnt) ==
  /\ env.cap \in {"none", "yes"}
  /\ env.an_ready /\ env.an_ok
  /\ \E i \in 1..BksvTries :
       /\ intel_hdcp_is_ksv_valid(env.bksv[i])
       /\ \A j \in 1..i : env.bksv_err # j
       /\ \A j \in 1..(i - 1) : ~intel_hdcp_is_ksv_valid(env.bksv[j])
       /\ ~intel_hdcp_ksvs_revocated(list, cnt, <<env.bksv[i]>>, env.ub)
  /\ env.rep # "err"
  /\ env.sig_ok
  /\ env.r0_ready \/ env.r0_enc
  /\ \E i \in 1..RiTries :
       /\ env.ri[i] \in {"match", "enc"}
       /\ \A j \in 1..(i - 1) : env.ri[j] = "none"
  /\ env.enc_final

Phase2Ops ==
  {"poll_ksv_fifo", "read_bstatus", "kzalloc_ksv_fifo", "read_ksv_fifo",
   "read_v_prime_part", "write_v_prime", "write_sha_text", "sha_complete"}

\* After a good Part 1 the repeater answered with a device count of 0.
ZeroDevices(env) ==
  /\ env.rep = "yes"
  /\ env.ksv_ready = "ready"
  /\ env.bstatus_ok
  /\ env.bstatus[1] = 0
  /\ ~MaxCascadeExceeded(env.bstatus[2])

\* The stores a revocation query may find: the empty store of a new
\* connector (a count of 0 ends the query before it reads the list), or all
\* the KSVs of one blob with their count.
CompleteStores ==
  {<<NullList, 0>>}
  \cup
  {<<LiveList(intel_hdcp_get_revocated_ksvs(SrmBlob(id),
        SrmPrepare(SrmBlob(id), 0).buf, 0, <<>>,
        SrmPrepare(SrmBlob(id), 0).vrl_length, 0)),
     SrmPrepare(SrmBlob(id), 0).ksv_count>> :
     id \in {b \in BlobIds : /\ SrmPrepare(SrmBlob(b), 0).ret = OK
                             /\ SrmPrepare(SrmBlob(b), 0).ksv_count > 0}}

\* What a query made now finds.
StoreClass ==
  IF revocated_ksv_cnt = 0
       \/ <<revocated_ksv_list, revocated_ksv_cnt>> \in CompleteStores
  THEN "whole" ELSE "torn"

(***************************************************************************)
(* The workqueue: a queued work item starts when it is not running.         *)
(***************************************************************************)
WorkStart(w) ==
  /\ pending[w]
  /\ pc[w] = "idle"
  /\ pending' = [pending EXCEPT ![w] = FALSE]
  /\ pc' = [pc EXCEPT ![w] = IF w = "prop" THEN "lock_conn" ELSE "lock"]
  /\ UNCHANGED <<hdcp_value, content_protection, cp_srm_blob_id, srm_blob_id,
                 revocated_ksv_list, revocated_ksv_cnt, downstream_info, hw,
                 hdcp_mutex, connection_mutex, canceling, commit_crtc, run,
                 disabled_since>>

(***************************************************************************)
(* _intel_hdcp_enable, run by task t with hdcp_mutex held.                  *)
(***************************************************************************)
\* Lines 698-712: the key load; rec: the calls are counted in the run;
\* trace: the run keeps them.
EnableKeysRec(t, rec, trace) ==
  /\ pc[t] = "keys"
  /\ \E k \in KeyEnvs :
       LET r == LoadKeys(k)
       IN  /\ run' = [run EXCEPT ![t].ret = r.ret,
                                 ![t].loads = IF rec THEN r.loads ELSE @,
                                 ![t].clears = IF rec THEN r.clears ELSE @,
                                 ![t].keys = IF trace THEN r.keys ELSE @]
           /\ pc' = [pc EXCEPT ![t] = IF r.ret = OK THEN "auth" ELSE "done"]
  /\ UNCHANGED <<hdcp_value, content_protection, cp_srm_blob_id, srm_blob_id,
                 revocated_ksv_list, revocated_ksv_cnt, downstream_info, hw,
                 hdcp_mutex, connection_mutex, pending, canceling, commit_crtc,
                 disabled_since>>

EnableKeysWith(t, rec) == EnableKeysRec(t, rec, FALSE)

EnableKeys(t) == EnableKeysWith(t, FALSE)

\* The topology the answers env of a successful attempt describe: the
\* repeater flag, the first valid Bksv read and, behind a repeater, the
\* device count, the depth and that many KSVs of the FIFO.
ExpectedInfo(env) ==
  LET rep == env.rep = "yes"
      n == IF rep THEN NumDownstream(env.bstatus[1]) ELSE 0
  IN  [is_repeater |-> rep,
       device_count |-> n,
       depth |-> IF rep THEN Depth(env.bstatus[2]) ELSE 0,
       bksv |-> IF intel_hdcp_is_ksv_valid(env.bksv[1]) THEN env.bksv[1]
                ELSE env.bksv[2],
       ksv_list |-> [k \in 1..MaxDevices |->
                       IF k <= n THEN env.fifo[k] ELSE KsvZero]]

\* What the run records of an attempt in which intel_hdcp_auth, answered
\* env, returned a.
RecordedAuth(r, a, env) ==
  LET ops == Range(a.ops)
      good == Phase1Good(env, revocated_ksv_list, revocated_ksv_cnt)
  IN  [r EXCEPT
         !.last_auth = a.ret,
         !.seen = IF "ksvs_revocated" \in ops THEN StoreClass ELSE "none",
         !.p2 = (ops \cap Phase2Ops # {}),
         !.rep = (env.rep = "yes"),
         !.p1ok = good,
         !.zero_all = (@ /\ good /\ ZeroDevices(env)),
         !.fresh = IF a.ret = OK THEN ExpectedInfo(env) ELSE ZeroInfo]

\* What the run records of the pass p.
Recorded(r, p) ==
  [r EXCEPT !.attempts = @ + 1,
            !.teardowns = IF p.teardown THEN @ + 1 ELSE @,
            !.ret = p.ret,
            !.sched = p.enabled]

\* What the run keeps of a traced attempt.
Traced(r, a, env) ==
  LET hashed == "sha_complete" \in Range(a.ops)
      fifo == SubSeq(env.fifo, 1, a.info.device_count)
  IN  [r EXCEPT !.traced = TRUE, !.env = env, !.ops = a.ops, !.info = a.info,
                !.sha_loop = IF hashed THEN ShaAfterKsvs(fifo) ELSE ShaInit,
                !.sha_tail = IF hashed
                             THEN ShaTail(ShaAfterKsvs(fifo), env.bstatus)
                             ELSE ShaInit,
                !.sha_end = IF hashed
                            THEN intel_hdcp_sha_text(fifo, env.bstatus)
                            ELSE ShaInit]

Untraced(r) ==
  [r EXCEPT !.traced = FALSE, !.env = NoEnv, !.ops = <<>>, !.info = ZeroInfo,
            !.sha_loop = ShaInit, !.sha_tail = ShaInit, !.sha_end = ShaInit]

\* Task t makes its next pass, the receiver answering from envs; rec: the
\* attempt is recorded; trace: it is traced.  The teardown's outcome matters
\* to a failed attempt only.
AttemptWith(t, envs, rec, trace) ==
  /\ pc[t] = "auth"
  /\ \E env \in envs :
     \E a \in {intel_hdcp_auth(downstream_info, hw, revocated_ksv_list,
                               revocated_ksv_cnt, env)} :
     \E r0 \in {IF rec THEN RecordedAuth(run[t], a, env) ELSE run[t]} :
     \E r \in {IF trace THEN Traced(r0, a, env) ELSE Untraced(r0)} :
     \E d \in IF a.ret = OK THEN {"ok"} ELSE DisableEnvs :
     \E p \in {enable_pass(a, d, run[t].attempts + 1)} :
       /\ downstream_info' = p.info
       /\ hw' = p.hw
       /\ hdcp_value' = IF p.enabled THEN CP_ENABLED ELSE hdcp_value
       /\ pending' = IF p.enabled
                     THEN schedule_check_work(schedule_work(pending, "prop"))
                     ELSE pending
       /\ run' = [run EXCEPT ![t] = Recorded(r, p)]
       /\ pc' = [pc EXCEPT ![t] = IF p.return THEN "done" ELSE "auth"]
  /\ UNCHANGED <<content_protection, cp_srm_blob_id, srm_blob_id,
                 revocated_ksv_list, revocated_ksv_cnt, hdcp_mutex,
                 connection_mutex, canceling, commit_crtc, disabled_since>>

Attempt(t, envs, rec) == AttemptWith(t, envs, rec, FALSE)

(***************************************************************************)
(* intel_hdcp_enable_work.                                                  *)
(***************************************************************************)
\* EnableWorkLock entering without waiting for hdcp_mutex (C3).
EnableWorkLock_NoMutex ==
  /\ pc["enable"] = "lock"
  /\ hdcp_mutex' = "enable"
  /\ pc' = [pc EXCEPT !["enable"] = "keys"]
  /\ run' = [run EXCEPT !["enable"] = [NoRun EXCEPT !.start_value = hdcp_value]]
  /\ UNCHANGED <<hdcp_value, content_protection, cp_srm_blob_id, srm_blob_id,
                 revocated_ksv_list, revocated_ksv_cnt, downstream_info, hw,
                 connection_mutex, pending, canceling, commit_crtc,
                 disabled_since>>

\* Line 746: mutex_lock.
EnableWorkLock ==
  /\ pc["enable"] = "lock"
  /\ hdcp_mutex = "none"
  /\ hdcp_mutex' = "enable"
  /\ pc' = [pc EXCEPT !["enable"] = "keys"]
  /\ run' = [run EXCEPT !["enable"] = [NoRun EXCEPT !.start_value = hdcp_value]]
  /\ UNCHANGED <<hdcp_value, content_protection, cp_srm_blob_id, srm_blob_id,
                 revocated_ksv_list, revocated_ksv_cnt, downstream_info, hw,
                 connection_mutex, pending, canceling, commit_crtc,
                 disabled_since>>

\* Lines 748-756: _intel_hdcp_enable has returned; the downstream property
\* is updated on success, the mutex released.
\* EnableWorkReturn without the mutex_unlock of line 756 (C22).
EnableWorkReturn_NoUnlock ==
  /\ pc["enable"] = "done"
  /\ pc' = [pc EXCEPT !["enable"] = "idle"]
  /\ run' = [run EXCEPT !["enable"] = NoRun]
  /\ UNCHANGED <<hdcp_value, content_protection, cp_srm_blob_id, srm_blob_id,
                 revocated_ksv_list, revocated_ksv_cnt, downstream_info, hw,
                 hdcp_mutex, connection_mutex, pending, canceling, commit_crtc,
                 disabled_since>>

EnableWorkReturn ==
  /\ pc["enable"] = "done"
  /\ hdcp_mutex' = "none"
  /\ pc' = [pc EXCEPT !["enable"] = "idle"]
  /\ run' = [run EXCEPT !["enable"] = NoRun]
  /\ UNCHANGED <<hdcp_value, content_protection, cp_srm_blob_id, srm_blob_id,
                 revocated_ksv_list, revocated_ksv_cnt, downstream_info, hw,
                 connection_mutex, pending, canceling, commit_crtc,
                 disabled_since>>

(***************************************************************************)
(* intel_hdcp_check_work and intel_hdcp_check_link.                         *)
(***************************************************************************)
\* Line 1072: mutex_lock.
CheckLock ==
  /\ pc["check"] = "lock"
  /\ hdcp_mutex = "none"
  /\ hdcp_mutex' = "check"
  /\ pc' = [pc EXCEPT !["check"] = "check"]
  /\ run' = [run EXCEPT !["check"] = [NoRun EXCEPT !.start_value = hdcp_value]]
  /\ UNCHANGED <<hdcp_value, content_protection, cp_srm_blob_id, srm_blob_id,
                 revocated_ksv_list, revocated_ksv_cnt, downstream_info, hw,
                 connection_mutex, pending, canceling, commit_crtc,
                 disabled_since>>

\* Lines 1077-1085: the status shows no encryption.
\* CheckNotEncrypted queueing the enable work as well (C10).
CheckNotEncrypted_Reauth ==
  /\ hdcp_value' = CP_DESIRED
  /\ pending' = schedule_work(schedule_work(pending, "prop"), "enable")
  /\ run' = [run EXCEPT !["check"].ret = ENXIO]
  /\ pc' = [pc EXCEPT !["check"] = "out_enc"]
  /\ UNCHANGED <<downstream_info, hw>>

CheckNotEncrypted ==
  /\ hdcp_value' = CP_DESIRED
  /\ pending' = schedule_work(pending, "prop")
  /\ run' = [run EXCEPT !["check"].ret = ENXIO]
  /\ pc' = [pc EXCEPT !["check"] = "out_enc"]
  /\ UNCHANGED <<downstream_info, hw>>

\* Lines 1087-1106: the shim's link check (link: it reports the link good)
\* and, on a bad link, the teardown meeting d.
\* CheckShim going on to _intel_hdcp_enable whatever the teardown returned
\* (C11).
CheckShim_AlwaysReenable(link, d) ==
  LET dis == _intel_hdcp_disable(downstream_info, hw, d)
  IN  IF link
      THEN /\ IF hdcp_value # CP_UNDESIRED
              THEN /\ hdcp_value' = CP_ENABLED
                   /\ pending' = schedule_work(pending, "prop")
              ELSE UNCHANGED <<hdcp_value, pending>>
           /\ run' = [run EXCEPT !["check"].ret = OK]
           /\ pc' = [pc EXCEPT !["check"] = "out"]
           /\ UNCHANGED <<downstream_info, hw>>
      ELSE /\ downstream_info' = dis.info
           /\ hw' = dis.hw
           /\ run' = [run EXCEPT !["check"].ret = dis.ret]
           /\ pc' = [pc EXCEPT !["check"] = "keys"]
           /\ UNCHANGED <<hdcp_value, pending>>
CheckShim(link, d) ==
  LET dis == _intel_hdcp_disable(downstream_info, hw, d)
  IN  IF link
      THEN /\ IF hdcp_value # CP_UNDESIRED
              THEN /\ hdcp_value' = CP_ENABLED
                   /\ pending' = schedule_work(pending, "prop")
              ELSE UNCHANGED <<hdcp_value, pending>>
           /\ run' = [run EXCEPT !["check"].ret = OK]
           /\ pc' = [pc EXCEPT !["check"] = "out"]
           /\ UNCHANGED <<downstream_info, hw>>
      ELSE /\ downstream_info' = dis.info
           /\ hw' = dis.hw
           /\ run' = [run EXCEPT !["check"].ret = dis.ret]
           /\ IF dis.ret # OK
              THEN /\ hdcp_value' = CP_DESIRED
                   /\ pending' = schedule_work(pending, "prop")
                   /\ pc' = [pc EXCEPT !["check"] = "out"]
              ELSE /\ pc' = [pc EXCEPT !["check"] = "keys"]
                   /\ UNCHANGED <<hdcp_value, pending>>

\* intel_hdcp_check_link from line 1074 to the call of _intel_hdcp_enable.
\* CheckLink without the early return of lines 1074-1075 (C5).
CheckLink_NoUndesiredGuard ==
  /\ pc["check"] = "check"
  /\ IF ~hw.enc THEN CheckNotEncrypted
     ELSE \E link \in BOOLEAN : \E d \in DisableEnvs : CheckShim(link, d)
  /\ UNCHANGED <<content_protection, cp_srm_blob_id, srm_blob_id,
                 revocated_ksv_list, revocated_ksv_cnt, hdcp_mutex,
                 connection_mutex, canceling, commit_crtc, disabled_since>>

CheckLink ==
  /\ pc["check"] = "check"
  /\ IF hdcp_value = CP_UNDESIRED
     THEN /\ run' = [run EXCEPT !["check"].ret = OK]
          /\ pc' = [pc EXCEPT !["check"] = "out"]
          /\ UNCHANGED <<hdcp_value, pending, downstream_info, hw>>
     ELSE IF ~hw.enc THEN CheckNotEncrypted
     ELSE \E link \in BOOLEAN : \E d \in DisableEnvs : CheckShim(link, d)
  /\ UNCHANGED <<content_protection, cp_srm_blob_id, srm_blob_id,
                 revocated_ksv_list, revocated_ksv_cnt, hdcp_mutex,
                 connection_mutex, canceling, commit_crtc, disabled_since>>

\* Lines 1108-1114: _intel_hdcp_enable has returned to intel_hdcp_check_link.
CheckEnableReturn ==
  /\ pc["check"] = "done"
  /\ pc' = [pc EXCEPT !["check"] = "out"]
  /\ IF run["check"].ret # OK
     THEN /\ hdcp_value' = CP_DESIRED
          /\ pending' = schedule_work(pending, "prop")
     ELSE UNCHANGED <<hdcp_value, pending>>
  /\ UNCHANGED <<content_protection, cp_srm_blob_id, srm_blob_id,
                 revocated_ksv_list, revocated_ksv_cnt, downstream_info, hw,
                 hdcp_mutex, connection_mutex, canceling, commit_crtc, run,
                 disabled_since>>

\* intel_hdcp_check_work, lines 764-766: the work queues itself again when
\* intel_hdcp_check_link returned 0.
\* check_work_requeue whatever intel_hdcp_check_link returned (C9).
check_work_requeue_Always(ret, p) == schedule_check_work(p)

check_work_requeue(ret, p) == IF ret = OK THEN schedule_check_work(p) ELSE p

\* Lines 1116-1118 and 764-766: unlock, return, and the work's re-queue.
CheckOut ==
  /\ pc["check"] \in {"out", "out_enc"}
  /\ hdcp_mutex' = "none"
  /\ pending' = check_work_requeue(run["check"].ret, pending)
  /\ pc' = [pc EXCEPT !["check"] = "idle"]
  /\ run' = [run EXCEPT !["check"] = NoRun]
  /\ UNCHANGED <<hdcp_value, content_protection, cp_srm_blob_id, srm_blob_id,
                 revocated_ksv_list, revocated_ksv_cnt, downstream_info, hw,
                 connection_mutex, canceling, commit_crtc, disabled_since>>

(***************************************************************************)
(* intel_hdcp_prop_work.                                                    *)
(***************************************************************************)
\* Line 777: drm_modeset_lock.
PropLockConn ==
  /\ pc["prop"] = "lock_conn"
  /\ connection_mutex = "none"
  /\ connection_mutex' = "prop"
  /\ pc' = [pc EXCEPT !["prop"] = "lock_hdcp"]
  /\ UNCHANGED <<hdcp_value, content_protection, cp_srm_blob_id, srm_blob_id,
                 revocated_ksv_list, revocated_ksv_cnt, downstream_info, hw,
                 hdcp_mutex, pending, canceling, commit_crtc, run,
                 disabled_since>>

\* Lines 785-788: what the work publishes.
\* prop_work_value publishing Undesired as well (C15).
prop_work_value_Always(value, published) == value
prop_work_value(value, published) ==
  IF value # CP_UNDESIRED THEN value ELSE published

\* Lines 778-791: under hdcp_mutex the state is published; both locks go.
PropWork ==
  /\ pc["prop"] = "lock_hdcp"
  /\ hdcp_mutex = "none"
  /\ content_protection' = prop_work_value(hdcp_value, content_protection)
  /\ connection_mutex' = "none"
  /\ pc' = [pc EXCEPT !["prop"] = "idle"]
  /\ UNCHANGED <<hdcp_value, cp_srm_blob_id, srm_blob_id, revocated_ksv_list,
                 revocated_ksv_cnt, downstream_info, hw, hdcp_mutex, pending,
                 canceling, commit_crtc, run, disabled_since>>

\* The receiver is unplugged or the link fails: encryption stops.
LinkLoss ==
  /\ hw.enc
  /\ hw' = [hw EXCEPT !.enc = FALSE]
  /\ UNCHANGED <<hdcp_value, content_protection, cp_srm_blob_id, srm_blob_id,
                 revocated_ksv_list, revocated_ksv_cnt, downstream_info,
                 hdcp_mutex, connection_mutex, pending, canceling, pc,
                 commit_crtc, run, disabled_since>>

(***************************************************************************)
(* The caller: an atomic commit of the connector's state, through           *)
(* intel_hdcp_atomic_check, intel_hdcp_atomic_pre_commit (intel_hdcp_disable)*)
(* and intel_hdcp_atomic_commit (intel_hdcp_update_srm, intel_hdcp_enable).  *)
(***************************************************************************)
\* intel_hdcp_atomic_check, lines 870-879: the value the new state carries.
atomic_check_cp(old_cp, new_cp, crtc) ==
  IF ~crtc /\ old_cp = CP_ENABLED THEN CP_DESIRED ELSE new_cp

\* intel_hdcp_atomic_pre_commit, lines 902-906: intel_hdcp_disable is called.
pre_commit_disables(old_cp, new_cp, crtc) ==
  \/ ~crtc /\ old_cp # CP_UNDESIRED
  \/ crtc /\ old_cp # CP_UNDESIRED /\ new_cp = CP_UNDESIRED

\* A commit starts: the caller asks for content protection cp, names SRM blob
\* srm and leaves the connector on a crtc or not; the new state is swapped in.
Commit(cps, srms, crtcs) ==
  /\ pc["caller"] = "idle"
  /\ \E cp \in cps \cup {content_protection} :
     \E srm \in srms \cup {cp_srm_blob_id} :
     \E crtc \in crtcs :
       LET new_cp == atomic_check_cp(content_protection, cp, crtc)
       IN  /\ content_protection' = new_cp
           /\ cp_srm_blob_id' = srm
           /\ commit_crtc' = crtc
           /\ pc' = [pc EXCEPT !["caller"] =
                       IF pre_commit_disables(content_protection, new_cp, crtc)
                       THEN "dis_lock" ELSE "commit"]
  /\ UNCHANGED <<hdcp_value, srm_blob_id, revocated_ksv_list,
                 revocated_ksv_cnt, downstream_info, hw, hdcp_mutex,
                 connection_mutex, pending, canceling, run, disabled_since>>

\* intel_hdcp_disable, line 851: mutex_lock.
DisableLock ==
  /\ pc["caller"] = "dis_lock"
  /\ hdcp_mutex = "none"
  /\ hdcp_mutex' = "caller"
  /\ pc' = [pc EXCEPT !["caller"] = "dis_body"]
  /\ UNCHANGED <<hdcp_value, content_protection, cp_srm_blob_id, srm_blob_id,
                 revocated_ksv_list, revocated_ksv_cnt, downstream_info, hw,
                 connection_mutex, pending, canceling, commit_crtc, run,
                 disabled_since>>

\* DisableBody going on to the cancel with hdcp_mutex held (C35).
DisableBody_KeepsMutex ==
  /\ pc["caller"] = "dis_body"
  /\ IF hdcp_value # CP_UNDESIRED
     THEN \E d \in DisableEnvs :
            LET dis == _intel_hdcp_disable(downstream_info, hw, d)
            IN  /\ hdcp_value' = CP_UNDESIRED
                /\ downstream_info' = dis.info
                /\ hw' = dis.hw
                /\ run' = [run EXCEPT !["caller"].ret = dis.ret,
                                      !["caller"].teardowns = 1]
     ELSE UNCHANGED <<hdcp_value, downstream_info, hw, run>>
  /\ pc' = [pc EXCEPT !["caller"] = "dis_cancel"]
  /\ UNCHANGED <<content_protection, cp_srm_blob_id, srm_blob_id,
                 revocated_ksv_list, revocated_ksv_cnt, hdcp_mutex,
                 connection_mutex, pending, canceling, commit_crtc,
                 disabled_since>>

\* intel_hdcp_disable, lines 853-858.
\* DisableBody tearing down whatever hdcp_value is (C13).
DisableBody_NoGuard ==
  /\ pc["caller"] = "dis_body"
  /\ \E d \in DisableEnvs :
       LET dis == _intel_hdcp_disable(downstream_info, hw, d)
       IN  /\ hdcp_value' = CP_UNDESIRED
           /\ downstream_info' = dis.info
           /\ hw' = dis.hw
           /\ run' = [run EXCEPT !["caller"].ret = dis.ret,
                                 !["caller"].teardowns = 1]
  /\ hdcp_mutex' = "none"
  /\ pc' = [pc EXCEPT !["caller"] = "dis_cancel"]
  /\ UNCHANGED <<content_protection, cp_srm_blob_id, srm_blob_id,
                 revocated_ksv_list, revocated_ksv_cnt, connection_mutex,
                 pending, canceling, commit_crtc, disabled_since>>
DisableBody ==
  /\ pc["caller"] = "dis_body"
  /\ IF hdcp_value # CP_UNDESIRED
     THEN \E d \in DisableEnvs :
            LET dis == _intel_hdcp_disable(downstream_info, hw, d)
            IN  /\ hdcp_value' = CP_UNDESIRED
                /\ downstream_info' = dis.info
                /\ hw' = dis.hw
                /\ run' = [run EXCEPT !["caller"].ret = dis.ret,
                                      !["caller"].teardowns = 1]
     ELSE UNCHANGED <<hdcp_value, downstream_info, hw, run>>
  /\ hdcp_mutex' = "none"
  /\ pc' = [pc EXCEPT !["caller"] = "dis_cancel"]
  /\ UNCHANGED <<content_protection, cp_srm_blob_id, srm_blob_id,
                 revocated_ksv_list, revocated_ksv_cnt, connection_mutex,
                 pending, canceling, commit_crtc, disabled_since>>

\* cancel_delayed_work_sync, line 859: the pending bit is taken ...
DisableCancel ==
  /\ pc["caller"] = "dis_cancel"
  /\ pending' = [pending EXCEPT !["check"] = FALSE]
  /\ canceling' = TRUE
  /\ pc' = [pc EXCEPT !["caller"] = "dis_wait"]
  /\ run' = [run EXCEPT !["caller"] = NoRun]
  /\ UNCHANGED <<hdcp_value, content_protection, cp_srm_blob_id, srm_blob_id,
                 revocated_ksv_list, revocated_ksv_cnt, downstream_info, hw,
                 hdcp_mutex, connection_mutex, commit_crtc, disabled_since>>

\* ... and a running check is waited for; intel_hdcp_disable returns.
DisableWait ==
  /\ pc["caller"] = "dis_wait"
  /\ pc["check"] = "idle"
  /\ canceling' = FALSE
  /\ disabled_since' = TRUE
  /\ pc' = [pc EXCEPT !["caller"] = "commit"]
  /\ UNCHANGED <<hdcp_value, content_protection, cp_srm_blob_id, srm_blob_id,
                 revocated_ksv_list, revocated_ksv_cnt, downstream_info, hw,
                 hdcp_mutex, connection_mutex, pending, commit_crtc, run>>

(***************************************************************************)
(* intel_hdcp_atomic_commit: intel_hdcp_update_srm and intel_hdcp_parse_srm  *)
(* run in the caller's thread; hdcp_mutex is not taken.                     *)
(***************************************************************************)
\* Lines 1052-1054 and 960-1011: the blob is looked up and checked, the
\* KSVs are counted, the old list is freed.
CommitSrm ==
  /\ pc["caller"] = "commit"
  /\ LET prep == SrmPrepare(SrmBlob(cp_srm_blob_id), 0)
         before == <<revocated_ksv_list, revocated_ksv_cnt, srm_blob_id>>
     IN  IF cp_srm_blob_id = 0 \/ cp_srm_blob_id = srm_blob_id
         THEN /\ pc' = [pc EXCEPT !["caller"] = "commit2"]
              /\ UNCHANGED <<srm_blob_id, revocated_ksv_list, run>>
         ELSE IF prep.ret # OK
         THEN /\ pc' = [pc EXCEPT !["caller"] = "commit2"]
              /\ run' = [run EXCEPT !["caller"].before = before,
                                    !["caller"].srm_ret = prep.ret]
              /\ UNCHANGED <<srm_blob_id, revocated_ksv_list>>
         ELSE IF prep.ksv_count = 0
         THEN /\ srm_blob_id' = cp_srm_blob_id
              /\ pc' = [pc EXCEPT !["caller"] = "commit2"]
              /\ run' = [run EXCEPT !["caller"].before = before,
                                    !["caller"].srm_ret = OK]
              /\ UNCHANGED revocated_ksv_list
         ELSE /\ revocated_ksv_list' =
                   IF revocated_ksv_list.st = "null" THEN NullList
                   ELSE FreedList
              /\ pc' = [pc EXCEPT !["caller"] = "srm_alloc"]
              /\ run' = [run EXCEPT !["caller"].before = before]
              /\ UNCHANGED srm_blob_id
  /\ UNCHANGED <<hdcp_value, content_protection, cp_srm_blob_id,
                 revocated_ksv_cnt, downstream_info, hw, hdcp_mutex,
                 connection_mutex, pending, canceling, commit_crtc,
                 disabled_since>>

\* Lines 1012-1017: kzalloc of the new list, which may fail.
SrmAlloc ==
  /\ pc["caller"] = "srm_alloc"
  /\ \E ok \in BOOLEAN :
       LET n == SrmPrepare(SrmBlob(cp_srm_blob_id), 0).ksv_count
       IN  /\ revocated_ksv_list' =
                IF ok THEN LiveList([k \in 1..n |-> KsvZero]) ELSE NullList
           /\ pc' = [pc EXCEPT !["caller"] = IF ok THEN "srm_fill" ELSE "commit2"]
           /\ run' = IF ok THEN run
                     ELSE [run EXCEPT !["caller"].srm_ret = ENOMEM]
  /\ UNCHANGED <<hdcp_value, content_protection, cp_srm_blob_id, srm_blob_id,
                 revocated_ksv_cnt, downstream_info, hw, hdcp_mutex,
                 connection_mutex, pending, canceling, commit_crtc,
                 disabled_since>>

\* Lines 1019-1024: the second pass fills the list; a count that differs
\* from the first pass's empties the store.
SrmFill ==
  /\ pc["caller"] = "srm_fill"
  /\ LET prep == SrmPrepare(SrmBlob(cp_srm_blob_id), 0)
         ksvs == intel_hdcp_get_revocated_ksvs(SrmBlob(cp_srm_blob_id),
                   prep.buf, 0, <<>>, prep.vrl_length, 0)
     IN  IF Len(ksvs) # prep.ksv_count
         THEN /\ revocated_ksv_cnt' = 0
              /\ revocated_ksv_list' = FreedList
              /\ pc' = [pc EXCEPT !["caller"] = "commit2"]
              /\ run' = [run EXCEPT !["caller"].srm_ret = EINVAL]
         ELSE /\ revocated_ksv_list' = LiveList(ksvs)
              /\ pc' = [pc EXCEPT !["caller"] = "srm_cnt"]
              /\ UNCHANGED <<revocated_ksv_cnt, run>>
  /\ UNCHANGED <<hdcp_value, content_protection, cp_srm_blob_id, srm_blob_id,
                 downstream_info, hw, hdcp_mutex, connection_mutex, pending,
                 canceling, commit_crtc, disabled_since>>

\* Lines 1026-1027 and 1040-1041: the count is stored, the blob recorded.
SrmCount ==
  /\ pc["caller"] = "srm_cnt"
  /\ revocated_ksv_cnt' = SrmPrepare(SrmBlob(cp_srm_blob_id), 0).ksv_count
  /\ srm_blob_id' = cp_srm_blob_id
  /\ pc' = [pc EXCEPT !["caller"] = "commit2"]
  /\ run' = [run EXCEPT !["caller"].srm_ret = OK]
  /\ UNCHANGED <<hdcp_value, content_protection, cp_srm_blob_id,
                 revocated_ksv_list, downstream_info, hw, hdcp_mutex,
                 connection_mutex, pending, canceling, commit_crtc,
                 disabled_since>>

\* Lines 1056-1058 and intel_hdcp_enable, lines 837-839: the enable work is
\* queued under hdcp_mutex when protection is desired; the commit ends.
\* CommitEnable with intel_hdcp_enable setting hdcp_value Desired (C14).
CommitEnable_SetsDesired ==
  /\ pc["caller"] = "commit2"
  /\ IF commit_crtc /\ content_protection = CP_DESIRED
     THEN /\ hdcp_mutex = "none"
          /\ hdcp_value' = CP_DESIRED
          /\ pending' = schedule_work(pending, "enable")
          /\ disabled_since' = FALSE
     ELSE UNCHANGED <<hdcp_value, pending, disabled_since>>
  /\ pc' = [pc EXCEPT !["caller"] = "idle"]
  /\ commit_crtc' = FALSE
  /\ run' = [run EXCEPT !["caller"] = NoRun]
  /\ UNCHANGED <<content_protection, cp_srm_blob_id, srm_blob_id,
                 revocated_ksv_list, revocated_ksv_cnt, downstream_info, hw,
                 hdcp_mutex, connection_mutex, canceling>>
CommitEnable ==
  /\ pc["caller"] = "commit2"
  /\ IF commit_crtc /\ content_protection = CP_DESIRED
     THEN /\ hdcp_mutex = "none"
          /\ pending' = schedule_work(pending, "enable")
          /\ disabled_since' = FALSE
     ELSE UNCHANGED <<pending, disabled_since>>
  /\ pc' = [pc EXCEPT !["caller"] = "idle"]
  /\ commit_crtc' = FALSE
  /\ run' = [run EXCEPT !["caller"] = NoRun]
  /\ UNCHANGED <<hdcp_value, content_protection, cp_srm_blob_id, srm_blob_id,
                 revocated_ksv_list, revocated_ksv_cnt, downstream_info, hw,
                 hdcp_mutex, connection_mutex, canceling>>

(***************************************************************************)
(* The session with all its tasks and the caller interleaving.              *)
(***************************************************************************)
Next ==
  \/ \E w \in Works : WorkStart(w)
  \/ EnableWorkLock
  \/ \E t \in Tasks : EnableKeys(t)
  \/ \E t \in Tasks : Attempt(t, ConcEnvs, FALSE)
  \/ EnableWorkReturn
  \/ CheckLock
  \/ CheckLink
  \/ CheckEnableReturn
  \/ CheckOut
  \/ PropLockConn
  \/ PropWork
  \/ LinkLoss
  \/ Commit({CP_UNDESIRED, CP_DESIRED}, {}, BOOLEAN)
  \/ DisableLock
  \/ DisableBody
  \/ DisableCancel
  \/ DisableWait
  \/ CommitSrm
  \/ CommitEnable

Spec == Init /\ [][Next]_vars

(***************************************************************************)
(* The enable path alone: the caller requests protection and names SRM     *)
(* blobs, the enable work runs _intel_hdcp_enable against every modelled    *)
(* receiver, and each attempt is recorded.                                  *)
(***************************************************************************)
NextRun ==
  \/ WorkStart("enable")
  \/ EnableWorkLock
  \/ EnableKeys("enable")
  \/ Attempt("enable", AuthEnvs, TRUE)
  \/ EnableWorkReturn
  \/ Commit({CP_DESIRED}, {}, {TRUE})
  \/ CommitSrm
  \/ CommitEnable

SpecRun == Init /\ [][NextRun]_vars

(***************************************************************************)
(* SRM updates racing the enable work: the caller names blobs while the     *)
(* enable work authenticates; an attempt reads the store as it is at the    *)
(* moment of the attempt.                                                   *)
(***************************************************************************)
SrmEnvs ==
  {Patch(b, [ub |-> u]) :
     b \in {e \in RunBases : e.bstatus[1] <= 1}, u \in BOOLEAN}

NextSrm ==
  \/ WorkStart("enable")
  \/ EnableWorkLock
  \/ EnableKeys("enable")
  \/ Attempt("enable", SrmEnvs, TRUE)
  \/ EnableWorkReturn
  \/ Commit({CP_DESIRED}, BlobIds, {TRUE})
  \/ CommitSrm
  \/ SrmAlloc
  \/ SrmFill
  \/ SrmCount
  \/ CommitEnable

SpecSrm == Init /\ [][NextSrm]_vars

(***************************************************************************)
(* SRM updates alone: commit after commit names one of the blobs, well      *)
(* formed or not, and intel_hdcp_update_srm parses it; an allocation may    *)
(* fail.                                                                    *)
(***************************************************************************)
NextParse ==
  \/ Commit({}, SrmCases, {FALSE})
  \/ CommitSrm
  \/ SrmAlloc
  \/ SrmFill
  \/ SrmCount
  \/ CommitEnable

SpecParse == Init /\ [][NextParse]_vars

(***************************************************************************)
(* One handshake under every modelled answer: the enable work holds         *)
(* hdcp_mutex with the keys loaded and makes the first pass of its run, the *)
(* revocation store being empty or holding all the KSVs of one blob; the    *)
(* pass is traced.  Later passes of the run meet a plain receiver.          *)
(***************************************************************************)
\* 5-byte values of 0, 19, 20, 21, 24 and 40 set bits, the 20 bits set
\* together or spread over the bytes.
ProbeKsvs ==
  {KsvA, KsvB, KsvBad, KsvZero,
   <<255, 255, 7, 0, 0>>, <<255, 255, 31, 0, 0>>, <<170, 170, 170, 170, 170>>,
   <<85, 85, 85, 85, 84>>, <<255, 255, 255, 255, 255>>}

\* The blob a whole store was parsed from (0: no blob was applied).
StoreOfBlob(id) ==
  IF id = 0 THEN <<NullList, 0>>
  ELSE <<LiveList(intel_hdcp_get_revocated_ksvs(SrmBlob(id),
            SrmPrepare(SrmBlob(id), 0).buf, 0, <<>>,
            SrmPrepare(SrmBlob(id), 0).vrl_length, 0)),
         SrmPrepare(SrmBlob(id), 0).ksv_count>>

TraceEnvs ==
  {Patch(b, Phase1Patches[i]) : b \in BaseEnvs, i \in 1..Len(Phase1Patches)}
  \cup
  {Patch(b, Phase2Patches[i]) :
     b \in {e \in BaseEnvs : e.rep = "yes"}, i \in 1..Len(Phase2Patches)}
  \cup
  {Patch(b, [bksv |-> <<k1, k2>>]) :
     b \in {e \in RunBases : e.rep = "no"}, k1 \in ProbeKsvs, k2 \in ProbeKsvs}

RetryEnvs ==
  {Patch(b, [an_ready |-> r]) :
     b \in {e \in RunBases : e.rep = "no"}, r \in BOOLEAN}

InitAuth ==
  /\ hdcp_value = CP_UNDESIRED
  /\ content_protection = CP_DESIRED
  /\ \E id \in {0} \cup {b \in BlobIds : StoreOfBlob(b) \in CompleteStores} :
       /\ cp_srm_blob_id = id
       /\ srm_blob_id = id
       /\ revocated_ksv_list = StoreOfBlob(id)[1]
       /\ revocated_ksv_cnt = StoreOfBlob(id)[2]
  /\ downstream_info = ZeroInfo
  /\ hw = HwOff
  /\ hdcp_mutex = "enable"
  /\ connection_mutex = "none"
  /\ pending = [w \in Works |-> FALSE]
  /\ canceling = FALSE
  /\ pc = [p \in Procs |-> IF p = "enable" THEN "auth" ELSE "idle"]
  /\ commit_crtc = TRUE
  /\ run = [t \in Procs |-> NoRun]
  /\ disabled_since = FALSE

AuthFirst ==
  /\ run["enable"].attempts = 0
  /\ AttemptWith("enable", TraceEnvs, TRUE, TRUE)

AuthRetry ==
  /\ run["enable"].attempts > 0
  /\ AttemptWith("enable", RetryEnvs, TRUE, FALSE)

NextAuth ==
  \/ AuthFirst
  \/ AuthRetry
  \/ EnableWorkReturn

SpecAuth == InitAuth /\ [][NextAuth]_vars

(***************************************************************************)
(* The SHA-1 text over every device count BSTATUS can announce: the enable  *)
(* work makes one traced pass behind a repeater of 1..MaxDownstream         *)
(* devices whose FIFO alternates two KSVs, V matching or not.               *)
(***************************************************************************)
\* The largest DRM_HDCP_NUM_DOWNSTREAM(bstatus[0]) of line 265.
MaxDownstream == NumDownstream(255)

LongFifo(n) == [k \in 1..n |-> IF k % 2 = 1 THEN KsvA ELSE KsvB]

LongEnvs ==
  {Patch(BaseEnv("yes", KsvA, "yes", <<n, 1>>, LongFifo(n)), [v_match |-> m]) :
     n \in 1..MaxDownstream, m \in BOOLEAN}

AuthLong ==
  /\ run["enable"].attempts = 0
  /\ AttemptWith("enable", LongEnvs, TRUE, TRUE)

NextSha ==
  \/ AuthLong
  \/ AuthRetry
  \/ EnableWorkReturn

SpecSha == InitAuth /\ [][NextSha]_vars

(***************************************************************************)
(* The enable path with the key load traced, before a plain receiver that  *)
(* answers the handshake or not.                                            *)
(***************************************************************************)
NextKeys ==
  \/ WorkStart("enable")
  \/ EnableWorkLock
  \/ EnableKeysRec("enable", TRUE, TRUE)
  \/ Attempt("enable", RetryEnvs, TRUE)
  \/ EnableWorkReturn
  \/ Commit({CP_DESIRED}, {}, {TRUE})
  \/ CommitSrm
  \/ CommitEnable

SpecKeys == Init /\ [][NextKeys]_vars

(***************************************************************************)
(* Progress: the enable work, the check work and the caller's commits       *)
(* interleave over a receiver without repeater; the key loads are counted   *)
(* and the attempts traced.  The workqueue starts a queued work, a thread   *)
(* that can run does run, and a thread waiting for hdcp_mutex gets it when  *)
(* it is released again and again (the mutex hands over to its waiters).    *)
(***************************************************************************)
LivePatches ==
  << [an_ready |-> TRUE], [an_ready |-> FALSE],
     [bksv |-> <<KsvBad, KsvBad>>], [ri |-> <<"none", "none", "none">>] >>

LiveEnvs ==
  {Patch(b, LivePatches[i]) :
     b \in {e \in RunBases : e.rep = "no"}, i \in 1..Len(LivePatches)}

EnableTask ==
  \/ EnableWorkLock
  \/ EnableKeysWith("enable", TRUE)
  \/ AttemptWith("enable", LiveEnvs, FALSE, TRUE)
  \/ EnableWorkReturn

CheckTask ==
  \/ CheckLock
  \/ CheckLink
  \/ EnableKeysWith("check", TRUE)
  \/ AttemptWith("check", LiveEnvs, FALSE, TRUE)
  \/ CheckEnableReturn
  \/ CheckOut

CallerTask ==
  \/ DisableLock
  \/ DisableBody
  \/ DisableCancel
  \/ DisableWait
  \/ CommitSrm
  \/ CommitEnable

NextLive ==
  \/ \E w \in Tasks : WorkStart(w)
  \/ EnableTask
  \/ CheckTask
  \/ CallerTask
  \/ LinkLoss
  \/ Commit({CP_UNDESIRED, CP_DESIRED}, {}, {TRUE})

SpecLive ==
  /\ Init
  /\ [][NextLive]_vars
  /\ \A w \in Tasks : WF_vars(WorkStart(w))
  /\ SF_vars(EnableTask)
  /\ SF_vars(CheckTask)
  /\ SF_vars(CallerTask)

(***************************************************************************)
(* Properties.                                                              *)
(***************************************************************************)

\* C1: once intel_hdcp_disable has returned and no intel_hdcp_enable was
\* called since, neither hdcp_value nor the published content_protection
\* becomes Enabled, also when an enable work queued before the disable runs
\* after it.
DisableWins ==
  [][(disabled_since /\ disabled_since') =>
       /\ hdcp_value' = CP_ENABLED => hdcp_value = CP_ENABLED
       /\ content_protection' = CP_ENABLED => content_protection = CP_ENABLED
    ]_vars

\* C2: from the return of intel_hdcp_disable to the next intel_hdcp_enable
\* no periodic check is pending or executing.
FullyDisabled ==
  disabled_since => ~pending["check"] /\ pc["check"] = "idle"

\* The positions at which a process is inside _intel_hdcp_enable,
\* intel_hdcp_auth or _intel_hdcp_disable, or between them.
InHandshake(p) ==
  \/ p \in Tasks /\ pc[p] \in {"keys", "auth", "done"}
  \/ p = "check" /\ pc[p] \in {"check", "out", "out_enc"}
  \/ p = "caller" /\ pc[p] = "dis_body"

\* C3: at most one process is inside the handshake or teardown logic, and it
\* holds hdcp_mutex; every step that changes hdcp_value or the topology info
\* is a step of the process that holds hdcp_mutex.
MutualExclusion ==
  [][/\ \A p \in Procs, q \in Procs :
          (InHandshake(p) /\ InHandshake(q))' => p = q
     /\ \A p \in Procs : InHandshake(p)' => hdcp_mutex' = p
     /\ (hdcp_value' # hdcp_value \/ downstream_info' # downstream_info) =>
          /\ hdcp_mutex # "none"
          /\ InHandshake(hdcp_mutex)
          /\ pc'[hdcp_mutex] # pc[hdcp_mutex] \/ run' # run
    ]_vars

\* C3 witness: the enable work is in an attempt while the check work and the
\* caller's intel_hdcp_disable both wait for hdcp_mutex.
MutualExclusionWitness ==
  /\ pc["enable"] = "auth"
  /\ run["enable"].attempts > 0
  /\ pc["check"] = "lock"
  /\ pc["caller"] = "dis_lock"

\* C4: an attempt that queries the revocation store during an SRM update
\* finds the complete old list with the old count or the complete new list
\* with the new count.
StoreAtomic == run["enable"].seen # "torn"

\* C5 as claimed: every change of hdcp_value is Undesired->Desired,
\* Desired->Enabled, Enabled->Desired or any->Undesired; never
\* Undesired->Enabled.
AllowedTransitions ==
  [][hdcp_value' # hdcp_value =>
       <<hdcp_value, hdcp_value'>> \in
         {<<CP_UNDESIRED, CP_DESIRED>>, <<CP_DESIRED, CP_ENABLED>>,
          <<CP_ENABLED, CP_DESIRED>>, <<CP_DESIRED, CP_UNDESIRED>>,
          <<CP_ENABLED, CP_UNDESIRED>>}
    ]_vars

\* C5 as amended: every change of hdcp_value is Undesired->Enabled or
\* Desired->Enabled (a successful handshake run, a good link check),
\* Enabled->Desired (link failure) or any->Undesired (disable); hdcp_value
\* never goes from Undesired to Desired.
CodeTransitions ==
  [][hdcp_value' # hdcp_value =>
       <<hdcp_value, hdcp_value'>> \in
         {<<CP_UNDESIRED, CP_ENABLED>>, <<CP_DESIRED, CP_ENABLED>>,
          <<CP_ENABLED, CP_DESIRED>>, <<CP_DESIRED, CP_UNDESIRED>>,
          <<CP_ENABLED, CP_UNDESIRED>>}
    ]_vars

\* C5 witness: an enable work that started at Undesired has set Enabled.
CodeTransitionsWitness ==
  /\ pc["enable"] = "done"
  /\ run["enable"].start_value = CP_UNDESIRED
  /\ run["enable"].attempts > 0
  /\ hdcp_value = CP_ENABLED

\* C6: a run of _intel_hdcp_enable makes at most AuthTries attempts and none
\* after a success, tears down after every failed attempt before the next,
\* and after AuthTries failures returns the last attempt's error, the failed
\* attempts leaving hdcp_value and the queued works as they were.
EnableRunBounded ==
  [][LET r == run'["enable"]
     IN  /\ r.attempts <= AuthTries
         /\ pc'["enable"] = "auth" =>
              /\ r.attempts < AuthTries
              /\ r.teardowns = r.attempts
              /\ r.attempts > 0 => r.last_auth # OK
         /\ (pc'["enable"] = "done" /\ r.attempts > 0) =>
              IF r.last_auth = OK
              THEN r.teardowns = r.attempts - 1 /\ r.ret = OK
              ELSE /\ r.attempts = AuthTries
                   /\ r.teardowns = AuthTries
                   /\ r.ret = r.last_auth
         /\ (r.attempts > run["enable"].attempts /\ r.last_auth # OK) =>
              /\ pending' = pending
              /\ hdcp_value' = hdcp_value
              /\ ~r.sched
    ]_vars

\* C6 witness: a run returns after AuthTries failed attempts and teardowns.
EnableRunBoundedWitness ==
  /\ pc["enable"] = "done"
  /\ run["enable"].attempts = AuthTries
  /\ run["enable"].teardowns = AuthTries
  /\ run["enable"].ret = ETIMEDOUT
  /\ ~pending["check"] /\ ~pending["prop"]

\* C7: Part 2 runs in an attempt iff the receiver reported a repeater and
\* every step of Part 1 succeeded; without a repeater and with every step of
\* Part 1 good the run ends Enabled with no operation of Part 2, the check
\* and the property work queued.
Phase2Iff ==
  LET r == run["enable"]
  IN  /\ r.attempts > 0 => (r.p2 <=> (r.rep /\ r.p1ok))
      /\ (r.attempts > 0 /\ ~r.rep /\ r.p1ok) =>
           /\ pc["enable"] = "done"
           /\ r.last_auth = OK
           /\ ~r.p2
           /\ hdcp_value = CP_ENABLED
           /\ pending["check"] /\ pending["prop"]

\* C7 witness: a first attempt against a receiver without repeater succeeded.
Phase2IffWitness ==
  /\ pc["enable"] = "done"
  /\ run["enable"].attempts = 1
  /\ ~run["enable"].rep /\ run["enable"].p1ok /\ ~run["enable"].p2
  /\ hdcp_value = CP_ENABLED

\* C8 as claimed: an enable work run with content protection requested whose
\* every attempt met a device count of 0 fails with EINVAL and leaves
\* hdcp_value at Desired.
ZeroDevicesSettlesDesired ==
  LET r == run["enable"]
  IN  (/\ pc["enable"] = "done" /\ r.attempts > 0 /\ r.zero_all
       /\ content_protection = CP_DESIRED) =>
        r.ret = EINVAL /\ hdcp_value = CP_DESIRED

\* C8 as amended: such a run makes AuthTries attempts, fails with EINVAL and
\* leaves hdcp_value as it was when the work took the mutex (Undesired for a
\* session that was not enabled before).
ZeroDevicesKeepsValue ==
  LET r == run["enable"]
  IN  (/\ pc["enable"] = "done" /\ r.attempts > 0 /\ r.zero_all
       /\ content_protection = CP_DESIRED) =>
        /\ r.attempts = AuthTries
        /\ r.ret = EINVAL
        /\ hdcp_value = r.start_value

\* C8 witness: the first run of a session met a device count of 0 thrice.
ZeroDevicesKeepsValueWitness ==
  /\ pc["enable"] = "done"
  /\ run["enable"].attempts = AuthTries
  /\ run["enable"].zero_all
  /\ run["enable"].ret = EINVAL
  /\ content_protection = CP_DESIRED
  /\ hdcp_value = CP_UNDESIRED

\* The check work finds, at a value other than Undesired, the encryption
\* status clear.
ChecksNotEncrypted ==
  /\ pc["check"] = "check"
  /\ pc'["check"] # "check"
  /\ hdcp_value # CP_UNDESIRED
  /\ ~hw.enc

\* What such a check does: Desired, the property work queued, no teardown,
\* no handshake, and a return that queues no check.
DemotionStep ==
  /\ ChecksNotEncrypted =>
       /\ hdcp_value' = CP_DESIRED
       /\ pending'["prop"]
       /\ pending'["check"] = pending["check"]
       /\ downstream_info' = downstream_info
       /\ hw' = hw
       /\ run'["check"].attempts = 0
       /\ pc'["check"] = "out_enc"
  /\ (pc["check"] = "out_enc" /\ pc'["check"] # "out_enc") =>
       /\ pc'["check"] = "idle"
       /\ pending'["check"] = pending["check"]

\* C9 as claimed: ... and after the check has returned no periodic check is
\* queued until a later enable succeeds.
CheckStopsMonitor ==
  [][/\ DemotionStep
     /\ (pc["check"] = "out_enc" /\ pc'["check"] = "idle") => ~pending'["check"]
    ]_vars

\* C9 as amended: a check that finds the encryption status clear at a value
\* other than Undesired sets Desired, queues the property work, performs no
\* teardown and no handshake and does not queue itself again; a check that
\* an enable run queued while this one waited for the mutex stays queued.
CheckDemotes == [][DemotionStep]_vars

\* C9 witness: a check has demoted an Enabled session and is about to return.
CheckDemotesWitness ==
  /\ pc["check"] = "out_enc"
  /\ run["check"].start_value = CP_ENABLED
  /\ hdcp_value = CP_DESIRED
  /\ pending["prop"]
  /\ ~pending["check"]

\* C10 as claimed: when the check that demoted Enabled to Desired returns, a
\* new handshake run is queued or running.
ReauthScheduled ==
  [][(/\ pc["check"] = "out_enc"
      /\ run["check"].start_value = CP_ENABLED
      /\ pc'["check"] = "idle") =>
       pending'["enable"] \/ pc'["enable"] # "idle"
    ]_vars

\* C10 as amended: the demoting check queues no handshake run and makes
\* none; the enable work is queued only by the caller's intel_hdcp_enable,
\* and a check work starts a handshake run only after it found the
\* encryption status set.
ReauthOnlyOnRequest ==
  [][/\ ChecksNotEncrypted =>
          pending'["enable"] = pending["enable"] /\ pc'["check"] = "out_enc"
     /\ pc["check"] = "out_enc" => pc'["check"] \in {"out_enc", "idle"}
     /\ (pending'["enable"] /\ ~pending["enable"]) =>
          pc["caller"] = "commit2" /\ pc'["caller"] = "idle"
     /\ (pc'["check"] = "keys" /\ pc["check"] # "keys") =>
          pc["check"] = "check" /\ hw.enc
    ]_vars

\* C10 witness: an Enabled session was demoted, and no handshake run is
\* queued or running, the caller idle.
ReauthOnlyOnRequestWitness ==
  /\ pc["check"] = "out_enc"
  /\ run["check"].start_value = CP_ENABLED
  /\ hdcp_value = CP_DESIRED
  /\ ~pending["enable"]
  /\ pc["enable"] = "idle"
  /\ pc["caller"] = "idle"

\* C11 as claimed: a check that finds the link bad (the shim's check failed:
\* intel_hdcp_check_link goes on to _intel_hdcp_enable or returns an error
\* with the port still encrypting) always attempts the re-enable, also when
\* the teardown returned an error; a failed re-enable leaves Desired.
ReenableAlways ==
  [][/\ ( /\ pc["check"] = "check" /\ pc'["check"] # "check"
          /\ hdcp_value # CP_UNDESIRED /\ hw.enc
          /\ (pc'["check"] = "keys" \/ run'["check"].ret # OK) )
        => pc'["check"] = "keys"
     /\ ( /\ pc["check"] = "done" /\ pc'["check"] = "out"
          /\ run["check"].ret # OK )
        => hdcp_value' = CP_DESIRED
    ]_vars

\* C11 as amended: on a bad link the re-enable is attempted only after a
\* teardown that returned 0 (the topology zeroed, the state left as it was);
\* a teardown error sets Desired, queues the property work and is returned
\* with no attempt made; a failed re-enable leaves Desired with the property
\* work queued, a successful one leaves Enabled.
ReenableAfterTeardown ==
  [][/\ (pc["check"] = "check" /\ pc'["check"] = "keys")
        => /\ run'["check"].ret = OK
           /\ downstream_info' = ZeroInfo
           /\ hdcp_value' = hdcp_value
           /\ pending' = pending
     /\ ( /\ pc["check"] = "check" /\ pc'["check"] = "out"
          /\ run'["check"].ret # OK )
        => /\ hdcp_value' = CP_DESIRED
           /\ pending'["prop"]
           /\ run'["check"].attempts = 0
     /\ (pc["check"] = "done" /\ pc'["check"] = "out")
        => IF run["check"].ret # OK
           THEN hdcp_value' = CP_DESIRED /\ pending'["prop"]
           ELSE hdcp_value' = CP_ENABLED
    ]_vars

\* C11 witness: a check found the link bad, its teardown failed on the
\* signalling, and it returns that error with no attempt made.
ReenableAfterTeardownWitness ==
  /\ pc["check"] = "out"
  /\ run["check"].ret = EIO
  /\ run["check"].attempts = 0
  /\ hdcp_value = CP_DESIRED

\* C12: a check work that ran intel_hdcp_check_link with hdcp_value Undesired
\* does not queue itself again: the work queues itself only with hdcp_value
\* Enabled or Desired.
NoRequeueWhenUndesired ==
  [][( /\ pc["check"] \in {"out", "out_enc"} /\ pc'["check"] = "idle"
       /\ ~pending["check"] /\ pending'["check"] )
     => hdcp_value \in {CP_ENABLED, CP_DESIRED}]_vars

EnableOnlySchedules ==
  [][( /\ pc["caller"] = "commit2" /\ pc'["caller"] = "idle"
       /\ commit_crtc /\ content_protection = CP_DESIRED )
     => /\ UNCHANGED <<hdcp_value, content_protection, downstream_info, hw,
                       revocated_ksv_list, revocated_ksv_cnt, srm_blob_id>>
        /\ pending'["enable"]
        /\ \A w \in Works \ {"enable"} : pending'[w] = pending[w]
        /\ pending["enable"] => pending' = pending
        /\ UNCHANGED <<pc["enable"], run["enable"]>>
    ]_vars

\* C14 witness: the enable work is still queued from an earlier
\* intel_hdcp_enable, not yet started, and the caller is about to call
\* intel_hdcp_enable again.
EnableOnlySchedulesWitness ==
  /\ pc["caller"] = "commit2"
  /\ commit_crtc /\ content_protection = CP_DESIRED
  /\ pending["enable"]
  /\ pc["enable"] = "idle"

\* C15: intel_hdcp_prop_work publishes hdcp_value as the content-protection
\* property when hdcp_value is Desired or Enabled and leaves the property as
\* it is when hdcp_value is Undesired; it never writes Undesired to the
\* property and never changes hdcp_value.
PropSync ==
  [][(pc["prop"] = "lock_hdcp" /\ pc'["prop"] = "idle")
     => /\ hdcp_value \in {CP_DESIRED, CP_ENABLED}
           => content_protection' = hdcp_value
        /\ hdcp_value = CP_UNDESIRED
           => content_protection' = content_protection
        /\ content_protection' = CP_UNDESIRED
           => content_protection = CP_UNDESIRED
        /\ hdcp_value' = hdcp_value
    ]_vars

\* C15 witness: the property work has published Enabled (no other code
\* writes Enabled to the property) and has returned.
PropSyncWitness ==
  /\ pc["prop"] = "idle"
  /\ ~pending["prop"]
  /\ content_protection = CP_ENABLED
  /\ hdcp_value = CP_ENABLED

\* C16: when intel_hdcp_update_srm has failed (a blob rejected, the two
\* passes disagreeing, the allocation failing), the revoked-KSV list, its
\* count and srm_blob_id are what they were before the update.
SrmFailureKeepsStore ==
  ( /\ pc["caller"] = "commit2"
    /\ run["caller"].srm_ret \notin {"none", OK} )
  => <<revocated_ksv_list, revocated_ksv_cnt, srm_blob_id>>
       = run["caller"].before

\* The KSVs the VRLs of the blob recorded as applied carry: the blobs are
\* the ones of SrmBlob, no blob is recorded before the first update.
CarriedKsvs(id) ==
  CASE id = 1 -> {KsvA}
    [] id = 2 -> {KsvB, KsvA}
    [] id = 8 -> {KsvB}
    [] OTHER  -> {}

\* KsvA with its lowest bit flipped.
KsvA1 == <<254, 255, 15, 0, 0>>

\* The candidate lists a query is made with.
Candidates ==
  LET c == {KsvA, KsvB, KsvA1, KsvZero}
  IN  {<<k>> : k \in c} \cup {<<k, l>> : k \in c, l \in c}

\* C17: between SRM updates, a revocation query over a list of candidate
\* KSVs answers true iff some candidate equals a KSV carried by the blob
\* recorded in srm_blob_id.
QueryMatchesAppliedBlob ==
  pc["caller"] = "idle"
  => \A cands \in Candidates :
       intel_hdcp_ksvs_revocated(revocated_ksv_list, revocated_ksv_cnt,
                                 cands, FALSE)
         = (\E k \in 1..Len(cands) : cands[k] \in CarriedKsvs(srm_blob_id))

\* A VRL segment of the payload (n bytes from index off) reaches beyond it:
\* its device count needs more bytes than the payload has left.
RECURSIVE VrlOverruns(_, _, _)
VrlOverruns(blob, off, n) ==
  LET vrl_sz == 1 + DRM_HDCP_KSV_LEN * blob[off]
  IN  IF vrl_sz > n THEN TRUE
      ELSE IF vrl_sz = n THEN FALSE
      ELSE VrlOverruns(blob, off + vrl_sz, n - vrl_sz)

\* C18: intel_hdcp_parse_srm fails on a blob one of whose VRL segments
\* overruns the declared payload, and a parse that succeeded copied no KSV
\* from beyond the payload: every KSV of the store lies within it.
ParseRejectsOverrun ==
  ( /\ pc["caller"] = "commit2"
    /\ run["caller"].srm_ret = OK )
  => LET blob == SrmBlob(cp_srm_blob_id)
         prep == SrmPrepare(blob, 0)
         inside == {KsvAt(blob, i, 0) :
                      i \in prep.buf..(prep.buf + prep.vrl_length
                                         - DRM_HDCP_KSV_LEN)}
     IN  /\ ~VrlOverruns(blob, prep.buf, prep.vrl_length)
         /\ prep.ksv_count > 0
            => \A k \in 1..revocated_ksv_cnt :
                 revocated_ksv_list.data[k] \in inside

\* A blob the header checks are to reject: shorter than header, length field
\* and signature; a source identifier other than the HDCP 1.4 one; a VRL
\* length beyond the blob less the header, below length field plus
\* signature, or leaving no payload.
HeaderMalformed(blob) ==
  LET overhead == DRM_HDCP_1_4_VRL_LENGTH_SIZE + DRM_HDCP_1_4_DCP_SIG_SIZE
      vrl_length == blob[SrmHeaderSize + 1] * 65536
                      + blob[SrmHeaderSize + 2] * 256
                      + blob[SrmHeaderSize + 3]
  IN  \/ Len(blob) < SrmHeaderSize + overhead
      \/ blob[1] \div 16 # DRM_HDCP_1_4_SRM_ID
      \/ vrl_length > Len(blob) - SrmHeaderSize
      \/ vrl_length < overhead
      \/ vrl_length = overhead

\* C19: intel_hdcp_update_srm on a blob the header checks are to reject
\* fails with EINVAL and leaves the revoked-KSV list, its count and
\* srm_blob_id as they were.
ParseRejectsMalformed ==
  ( /\ pc["caller"] = "commit2"
    /\ run["caller"].srm_ret # "none"
    /\ HeaderMalformed(SrmBlob(cp_srm_blob_id)) )
  => /\ run["caller"].srm_ret = EINVAL
     /\ <<revocated_ksv_list, revocated_ksv_cnt, srm_blob_id>>
          = run["caller"].before

\* C19 witness: with KSVs in the store, the blob without payload (the last
\* of the checks) was rejected.
ParseRejectsMalformedWitness ==
  /\ pc["caller"] = "commit2"
  /\ cp_srm_blob_id = 7
  /\ run["caller"].srm_ret = EINVAL
  /\ revocated_ksv_cnt > 0
  /\ revocated_ksv_list.st = "live"

\* C20: when _intel_hdcp_enable returns 0 the topology info holds what the
\* answers of the successful attempt describe and nothing else, and when it
\* returns after AuthTries failed attempts the topology info is all zero.
TopologyRebuilt ==
  LET r == run["enable"]
  IN  pc["enable"] = "done"
      => /\ (r.attempts > 0 /\ r.ret = OK) => downstream_info = r.fresh
         /\ (r.attempts = AuthTries /\ r.ret # OK)
              => downstream_info = ZeroInfo

\* C21: intel_hdcp_is_ksv_valid accepts a 5-byte value exactly when 20 of
\* its 40 bits are set, and changes nothing: in a traced handshake whose
\* Bksv reads are all answered, each value read is rejected, and read again
\* or given up with ENODEV and the topology info untouched, exactly when
\* the number of its set bits is not 20; the first value of 20 set bits is
\* the one the handshake goes on with.
SetBits(ksv) ==
  {<<i, b>> \in (1..DRM_HDCP_KSV_LEN) \X (0..7) : (ksv[i] \div (2 ^ b)) % 2 = 1}

BksvReads(r) == Len(SelectSeq(r.ops, LAMBDA o : o = "read_bksv"))

ReachedBksv(r) ==
  /\ r.traced
  /\ r.env.cap \in {"none", "yes"}
  /\ r.env.an_ready /\ r.env.an_ok
  /\ r.env.bksv_err = 0

ValidatorCounts20 ==
  LET r == run["enable"]
      ok1 == Cardinality(SetBits(r.env.bksv[1])) = 20
      ok2 == Cardinality(SetBits(r.env.bksv[2])) = 20
  IN  ReachedBksv(r) =>
        /\ BksvReads(r) = (IF ok1 THEN 1 ELSE 2)
        /\ (r.last_auth = ENODEV) <=> (~ok1 /\ ~ok2)
        /\ r.last_auth = ENODEV => r.info = ZeroInfo
        /\ (ok1 \/ ok2) =>
             "ksvs_revocated" \in Range(r.ops)

\* A first read of 21 set bits was rejected and a second of 20 bits spread
\* over the five bytes accepted.
ValidatorCounts20Witness ==
  LET r == run["enable"]
  IN  /\ ReachedBksv(r)
      /\ r.env.bksv = << <<255, 255, 31, 0, 0>>, <<170, 170, 170, 170, 170>> >>
      /\ BksvReads(r) = 2
      /\ "write_bksv" \in Range(r.ops)

\* C23: Part 1 succeeds only after the status showed RI_MATCH for one of at
\* most RiTries Ri' values read and written; the loop stops at the first
\* match, and with no match in RiTries tries the attempt returns ETIMEDOUT.
RiReads(r) == Len(SelectSeq(r.ops, LAMBDA o : o = "read_ri_prime"))

RiMatchRequired ==
  LET r == run["enable"]
      matched == {i \in 1..RiTries : r.env.ri[i] = "match"}
  IN  (r.traced /\ "wait_r0_prime" \in Range(r.ops)) =>
        /\ RiReads(r) <= RiTries
        /\ r.last_auth = OK =>
             \E i \in matched : /\ RiReads(r) = i
                                /\ \A j \in 1..(i - 1) : j \notin matched
        /\ (matched = {} /\ \A i \in 1..RiTries : r.env.ri[i] # "err") =>
             r.last_auth = ETIMEDOUT

\* C24: Part 1 goes past the R0 poll only when the status shows both
\* R0_READY and ENC; with either bit clear at the end of the poll the
\* attempt returns ETIMEDOUT.
R0NeedsBoth ==
  LET r == run["enable"]
      both == r.env.r0_ready /\ r.env.r0_enc
  IN  (r.traced /\ "wait_r0" \in Range(r.ops)) =>
        /\ "wait_r0_prime" \in Range(r.ops) => both
        /\ ~both => r.last_auth = ETIMEDOUT

\* C25: Part 1 reads Bksv at most BksvTries times; it writes Bksv to the
\* transmitter and turns authentication and encryption on only after a read
\* returned a value of 20 set bits that the revocation store does not hold;
\* BksvTries reads of other values end in ENODEV and a revoked Bksv in
\* EPERM, both with no Bksv register written.
BksvGate ==
  LET r == run["enable"]
      ops == Range(r.ops)
      good(i) == Cardinality(SetBits(r.env.bksv[i])) = 20
      used == IF good(1) THEN r.env.bksv[1] ELSE r.env.bksv[2]
      revoked == used \in CarriedKsvs(srm_blob_id)
  IN  (r.traced /\ "read_bksv" \in ops) =>
        /\ BksvReads(r) <= BksvTries
        /\ ({"write_bksv", "write_conf_auth_and_enc"} \cap ops # {}) =>
             /\ \E i \in 1..BksvReads(r) : good(i)
             /\ ~revoked
        /\ r.env.bksv_err = 0 =>
             /\ (~good(1) /\ ~good(2)) =>
                  r.last_auth = ENODEV /\ "write_bksv" \notin ops
             /\ ((good(1) \/ good(2)) /\ revoked) =>
                  r.last_auth = EPERM /\ "write_bksv" \notin ops

\* A second read returned a valid Bksv that the store holds.
BksvGateWitness ==
  LET r == run["enable"]
  IN  /\ r.traced
      /\ r.env.bksv = <<KsvBad, KsvA>>
      /\ r.env.bksv_err = 0
      /\ KsvA \in CarriedKsvs(srm_blob_id)
      /\ BksvReads(r) = 2
      /\ r.last_auth = EPERM

\* C26 (as stated): when the shim's hdcp_capable query reports "not
\* capable", Part 1 returns EPERM before An is generated, captured or sent.
AnOps == {"write_aninit", "capture_an", "wait_an", "read_an", "write_an_aksv"}

HashOps == {"read_v_prime_part", "write_v_prime", "write_sha_text",
            "sha_complete"}

ReadBstatus(r) ==
  /\ r.traced
  /\ "read_bstatus" \in Range(r.ops)
  /\ r.env.bstatus_ok

ValidateBeforeHash ==
  LET r == run["enable"]
      ops == Range(r.ops)
      b == r.env.bstatus
      over == b[1] >= 128 \/ (b[2] \div 8) % 2 = 1
      n == b[1] % 128
      revoked == \E k \in 1..n : r.env.fifo[k] \in CarriedKsvs(srm_blob_id)
  IN  ReadBstatus(r) =>
        /\ over =>
             /\ r.last_auth = EPERM
             /\ ops \cap ({"read_ksv_fifo"} \cup HashOps) = {}
        /\ (~over /\ n = 0) =>
             /\ r.last_auth = EINVAL
             /\ ops \cap ({"read_ksv_fifo"} \cup HashOps) = {}
        /\ (~over /\ n > 0 /\ "read_ksv_fifo" \in ops /\ r.env.fifo_ok
              /\ revoked) =>
             /\ r.last_auth = EPERM
             /\ ops \cap HashOps = {}

\* The FIFO of a repeater, whose own Bksv is not revoked, held a revoked
\* KSV.
ValidateBeforeHashWitness ==
  LET r == run["enable"]
  IN  /\ ReadBstatus(r)
      /\ "read_ksv_fifo" \in Range(r.ops)
      /\ r.env.fifo_ok
      /\ r.env.bstatus[1] = MaxDevices
      /\ r.env.fifo[MaxDevices] \in CarriedKsvs(srm_blob_id)
      /\ r.env.fifo[1] \notin CarriedKsvs(srm_blob_id)
      /\ r.last_auth = EPERM

\* C28 (as stated): every KSV read from the repeater's FIFO that is copied
\* into the topology info or streamed to the hash engine has 20 set bits.
FifoUsed(r) ==
  /\ r.traced
  /\ "read_ksv_fifo" \in Range(r.ops)
  /\ r.env.fifo_ok
  /\ "read_v_prime_part" \in Range(r.ops)

FifoKsvsValidated ==
  LET r == run["enable"]
  IN  FifoUsed(r) =>
        \A k \in 1..r.info.device_count :
          Cardinality(SetBits(r.info.ksv_list[k])) = 20

\* C28 (amended): the KSVs read from the FIFO are checked against the
\* revocation store only: Part 2 copies them to the topology info and goes
\* on to the V' parts exactly when the store holds none of them, whatever
\* the number of their set bits.
FifoKsvsRevocationOnly ==
  LET r == run["enable"]
      n == r.env.bstatus[1] % 128
      revoked == \E k \in 1..n : r.env.fifo[k] \in CarriedKsvs(srm_blob_id)
  IN  (r.traced /\ "read_ksv_fifo" \in Range(r.ops) /\ r.env.fifo_ok) =>
        /\ "read_v_prime_part" \in Range(r.ops) <=> ~revoked
        /\ ~revoked => \A k \in 1..n : r.info.ksv_list[k] = r.env.fifo[k]

\* Part 2 succeeded over a FIFO holding a KSV of 24 set bits.
FifoKsvsRevocationOnlyWitness ==
  LET r == run["enable"]
  IN  /\ FifoUsed(r)
      /\ r.last_auth = OK
      /\ \E k \in 1..r.info.device_count : r.info.ksv_list[k] = KsvBad
      /\ "write_sha_text" \in Range(r.ops)

\* C29: the words written to HDCP_SHA_TEXT during the KSV loop, read
\* big-endian and followed by the leftover bytes pending at the end of the
\* loop, are the 5*n bytes of the n KSVs in FIFO order, and the number of
\* leftover bytes after the n KSVs is n mod 4.
Hashed(r) == r.traced /\ "sha_complete" \in Range(r.ops)

ShaTexts(out) == SelectSeq(out, LAMBDA e : e.reg = "HDCP_SHA_TEXT")

KsvLoopBigEndian ==
  LET r == run["enable"]
      n == r.info.device_count
      s == r.sha_loop
      words == ShaTexts(s.out)
  IN  Hashed(r) =>
        /\ Flatten([k \in 1..Len(words) |-> words[k].text])
             \o SubSeq(s.sha_text, 1, s.sha_leftovers)
           = Flatten([k \in 1..n |-> r.env.fifo[k]])
        /\ s.sha_leftovers = n % 4

\* C30: after the KSV loop 0 to 3 bytes are left over and the tail does not
\* end in EINVAL; the text bytes of the tail's words, each word carrying its
\* text in the low bytes selected by the width in force, are the leftover
\* bytes followed by the two BSTATUS bytes, and the widths leave 64 bits of
\* the tail's words to M0.
RECURSIVE M0Bits(_)
M0Bits(texts) ==
  IF texts = <<>> THEN 0 ELSE (32 - Head(texts).width) + M0Bits(Tail(texts))

TailBytesDistinct ==
  LET r == run["enable"]
      s == r.sha_loop
      t == r.sha_tail
      texts == ShaTexts(SubSeq(t.out, Len(s.out) + 1, Len(t.out)))
      bytes == Flatten([k \in 1..Len(texts) |->
                          SubSeq(texts[k].text,
                                 ShaWordLen - texts[k].width \div 8 + 1,
                                 ShaWordLen)])
  IN  Hashed(r) =>
        /\ s.sha_leftovers \in 0..3
        /\ t.ret = OK
        /\ bytes = SubSeq(s.sha_text, 1, s.sha_leftovers) \o r.env.bstatus
        /\ M0Bits(texts) = 64

\* C22: every run of the enable work, of intel_hdcp_disable and of the
\* check work ends with hdcp_mutex released, whatever the hardware and the
\* receiver answer; a run of _intel_hdcp_enable makes at most KEY_LOAD_TRIES
\* key loads and AuthTries attempts, an attempt at most BksvTries reads of
\* Bksv and RiTries reads of Ri'.
InDisable == pc["caller"] \in {"dis_lock", "dis_body", "dis_cancel", "dis_wait"}

RunsBounded ==
  \A t \in Tasks :
    /\ run[t].loads <= KEY_LOAD_TRIES
    /\ run[t].attempts <= AuthTries
    /\ BksvReads(run[t]) <= BksvTries
    /\ RiReads(run[t]) <= RiTries

RunsTerminate ==
  /\ []RunsBounded
  /\ \A t \in Tasks : (pc[t] # "idle") ~> (pc[t] = "idle" /\ hdcp_mutex # t)
  /\ InDisable ~> (~InDisable /\ hdcp_mutex # "caller")

\* The check work has made the last attempt of a re-enable, after a key
\* load that failed once; the attempt read an invalid Bksv twice.
RunsTerminateWitness ==
  /\ pc["check"] = "done"
  /\ hdcp_mutex = "check"
  /\ run["check"].loads = 2
  /\ run["check"].attempts = AuthTries
  /\ BksvReads(run["check"]) = BksvTries

(***************************************************************************)
(* The block start of the hash engine (lines 311-349).                      *)
(***************************************************************************)
\* C31: in a run that hashed, after every word that the KSV loop writes to
\* HDCP_SHA_TEXT and that leaves sha_idx a multiple of 64, the next register
\* write is one of HDCP_REP_CTL, whether the word was the first or the
\* second written for its KSV.
RepCtlEvery64Bytes ==
  \A t \in Tasks :
    Hashed(run[t]) =>
      \A k \in 1..Len(run[t].sha_loop.out) :
        (/\ run[t].sha_loop.out[k].reg = "HDCP_SHA_TEXT"
         /\ run[t].sha_loop.out[k].idx % 64 = 0)
        => run[t].sha_end.out[k + 1].reg = "HDCP_REP_CTL"

(***************************************************************************)
(* The end of the SHA-1 text (lines 457-474).                               *)
(***************************************************************************)
\* The value of a word.
WordValue(w) == ((w[1] * 256 + w[2]) * 256 + w[3]) * 256 + w[4]

\* C32: in a run that hashed the KSVs of n devices, sha_idx is a multiple of
\* 4 at every register write, the write before the last leaves it at 60
\* within its 64-byte block, the last write is the word (n * 5 + 10) * 8 to
\* HDCP_SHA_TEXT, and the number of words written to HDCP_SHA_TEXT is a
\* multiple of 16.
ShaTextEndsBlock ==
  LET r == run["enable"]
      n == r.info.device_count
      out == r.sha_end.out
      last == Len(out)
  IN  Hashed(r) =>
        /\ \A k \in 1..last : out[k].idx % ShaWordLen = 0
        /\ out[last - 1].idx % 64 = 60
        /\ out[last].reg = "HDCP_SHA_TEXT"
        /\ WordValue(out[last].text) = (n * 5 + 10) * 8
        /\ r.sha_end.sha_idx = out[last].idx
        /\ Len(ShaTexts(out)) % 16 = 0

\* A run hashed the KSVs of the largest repeater and padded the last block
\* with zeros after the tail.
ShaTextEndsBlockWitness ==
  LET r == run["enable"]
      out == r.sha_end.out
  IN  /\ Hashed(r)
      /\ r.info.device_count = MaxDownstream
      /\ Len(out) > Len(r.sha_tail.out) + 2
      /\ out[Len(out) - 1].text = Word0
      /\ out[Len(out) - 1].reg = "HDCP_SHA_TEXT"

(***************************************************************************)
(* The key load of one enable run (lines 698-712).                          *)
(***************************************************************************)
KeyLoads(keys) == SelectSeq(keys, LAMBDA e : e.op = "intel_hdcp_load_keys")

\* C33: a traced enable run calls intel_hdcp_load_keys at most KEY_LOAD_TRIES
\* times and not after a load that succeeded, calls intel_hdcp_clear_keys
\* right after each load that failed and nowhere else, returns the last
\* load's error without any handshake attempt when KEY_LOAD_TRIES loads
\* failed, and returns without any load or attempt when the power well is
\* off.
KeyLoadLoop ==
  LET r == run["enable"]
      keys == r.keys
      loads == KeyLoads(keys)
  IN  keys # <<>> =>
        /\ Len(loads) <= KEY_LOAD_TRIES
        /\ keys[1].op = "hdcp_key_loadable"
        /\ \A i \in 2..Len(keys) :
             /\ keys[i].op \in {"intel_hdcp_load_keys", "intel_hdcp_clear_keys"}
             /\ (keys[i].op = "intel_hdcp_load_keys" /\ keys[i].ret = OK)
                => i = Len(keys)
             /\ (keys[i].op = "intel_hdcp_load_keys" /\ keys[i].ret # OK)
                => (i < Len(keys) /\ keys[i + 1].op = "intel_hdcp_clear_keys")
             /\ keys[i].op = "intel_hdcp_clear_keys"
                => (keys[i - 1].op = "intel_hdcp_load_keys"
                    /\ keys[i - 1].ret # OK)
        /\ (keys[1].ret = OK /\ keys[Len(keys)].op = "intel_hdcp_clear_keys")
           => /\ Len(loads) = KEY_LOAD_TRIES
              /\ r.ret = loads[KEY_LOAD_TRIES].ret
              /\ r.attempts = 0
              /\ pc["enable"] = "done"
        /\ keys[1].ret # OK
           => /\ Len(keys) = 1
              /\ r.ret = ENXIO
              /\ r.attempts = 0
              /\ pc["enable"] = "done"
        /\ keys[1].ret = OK => Len(loads) >= 1
        /\ r.attempts > 0 => keys[Len(keys)] = KeyOp("intel_hdcp_load_keys", OK)

\* KEY_LOAD_TRIES loads failed, the last with another error than the first,
\* and the run returned that error.
KeyLoadLoopWitness ==
  LET r == run["enable"]
      loads == KeyLoads(r.keys)
  IN  /\ Len(loads) = KEY_LOAD_TRIES
      /\ \A i \in 1..KEY_LOAD_TRIES : loads[i].ret # OK
      /\ loads[1].ret # loads[KEY_LOAD_TRIES].ret
      /\ r.clears = KEY_LOAD_TRIES
      /\ r.ret = loads[KEY_LOAD_TRIES].ret
      /\ r.attempts = 0
      /\ pc["enable"] = "done"

(***************************************************************************)
(* The link check of an enabled session (lines 715-724, 759-767, 844-861).  *)
(***************************************************************************)
\* C34: whenever hdcp_value is ENABLED and nobody holds hdcp_mutex, the check
\* work is queued or running.
EnabledIsMonitored ==
  (hdcp_value = CP_ENABLED /\ hdcp_mutex = "none")
  => (pending["check"] \/ pc["check"] # "idle")

(***************************************************************************)
(* The locks of the session's tasks (lines 739-792, 844-861, 1062-1119).    *)
(***************************************************************************)
\* A step of a task that has started: of a work between its start and its
\* return, of the caller inside a commit.
TaskStep ==
  \/ EnableWorkLock
  \/ \E t \in Tasks : EnableKeys(t)
  \/ \E t \in Tasks : Attempt(t, ConcEnvs, FALSE)
  \/ EnableWorkReturn
  \/ CheckLock
  \/ CheckLink
  \/ CheckEnableReturn
  \/ CheckOut
  \/ PropLockConn
  \/ PropWork
  \/ DisableLock
  \/ DisableBody
  \/ DisableCancel
  \/ DisableWait
  \/ CommitSrm
  \/ CommitEnable

\* C35: intel_hdcp_disable cancels and waits for the check work without
\* hdcp_mutex, a task that is to take connection_mutex does not hold
\* hdcp_mutex, nobody holds both locks' names at once but the property work
\* that took connection_mutex first, and while any task is between its start
\* and its return some started task can take a step.
TasksNeverDeadlock ==
  /\ pc["caller"] \in {"dis_cancel", "dis_wait"} => hdcp_mutex # "caller"
  /\ \A p \in Procs : pc[p] = "lock_conn" => hdcp_mutex # p
  /\ connection_mutex \in {"none", "prop"}
  /\ (\E p \in Procs : pc[p] # "idle") => ENABLED TaskStep

\* intel_hdcp_disable waits for a check work that waits for hdcp_mutex, which
\* the enable work holds, while the property work holds connection_mutex
\* and waits for hdcp_mutex too.
TasksNeverDeadlockWitness ==
  /\ pc["caller"] = "dis_wait"
  /\ pc["check"] = "lock"
  /\ pc["prop"] = "lock_hdcp"
  /\ connection_mutex = "prop"
  /\ hdcp_mutex = "enable"

(***************************************************************************)
(* The KSV FIFO buffer of Part 2 (lines 272-283, 466-490).                  *)
(***************************************************************************)
\* The buffers that the operations ops allocated for the KSV FIFO and did
\* not free.
LiveKsvFifos(ops) ==
  Len(SelectSeq(ops, LAMBDA o : o = "kzalloc_ksv_fifo"))
  - Len(SelectSeq(ops, LAMBDA o : o = "kfree_ksv_fifo"))

\* C36: when a traced handshake attempt has returned, with 0 or with an
\* error, every buffer it allocated for the KSV FIFO has been freed.
KsvFifoFreed ==
  \A t \in Tasks : run[t].traced => LiveKsvFifos(run[t].ops) = 0

====
